---- MODULE Spec2Model ----
(***************************************************************************)
(* Conversation-conflict resolution and session routing of the Sukoon      *)
(* Saarthi WhatsApp webhook: the session store, the identity normalizer,   *)
(* the conflict detector, the disambiguation resolver and the dispatch     *)
(* router, together with the dialog handlers' effects on the session maps. *)
(*                                                                         *)
(* Text is modelled as a sequence of one-character strings, so that trim,  *)
(* toLowerCase, parseInt and the /^\d+$/ test are computed, not assumed.   *)
(* A phone identity is a sequence of tokens in which the transport prefix  *)
(* "whatsapp:" is one token.                                               *)
(***************************************************************************)
EXTENDS Integers, Sequences, FiniteSets, TLC

(***************************************************************************)
(* Bounds of the model                                                     *)
(***************************************************************************)
\* longest identity string (in tokens) given to the normalizer
MaxIdLen == 4
\* pending delayed main-menu sends (setTimeout) remembered per key
MaxTimers == 1
\* length of a medication list kept in a session
MaxMeds == 2
\* number of messages of one explored conversation
MaxMessages == 3

(***************************************************************************)
(* Text helpers                                                            *)
(***************************************************************************)
Digits == {"0", "1", "2", "3", "4", "5", "6", "7", "8", "9"}

DigitVal(c) ==
    CASE c = "0" -> 0 [] c = "1" -> 1 [] c = "2" -> 2 [] c = "3" -> 3
      [] c = "4" -> 4 [] c = "5" -> 5 [] c = "6" -> 6 [] c = "7" -> 7
      [] c = "8" -> 8 [] c = "9" -> 9

\* String.prototype.toLowerCase on one character (the letters that occur
\* in upper case in the message texts of the model)
LowerChar(c) ==
    CASE c = "Y" -> "y" [] c = "E" -> "e" [] c = "S" -> "s"
      [] c = "N" -> "n" [] c = "O" -> "o" [] c = "H" -> "h"
      [] c = "I" -> "i" [] OTHER -> c

toLowerCase(s) == [i \in 1..Len(s) |-> LowerChar(s[i])]

RECURSIVE TrimLeft(_)
TrimLeft(s) == IF s # <<>> /\ Head(s) = " " THEN TrimLeft(Tail(s)) ELSE s

RECURSIVE TrimRight(_)
TrimRight(s) ==
    IF s # <<>> /\ s[Len(s)] = " " THEN TrimRight(SubSeq(s, 1, Len(s) - 1)) ELSE s

\* String.prototype.trim
trim(s) == TrimRight(TrimLeft(s))

\* /^\d+$/.test(s)
IsAllDigits(s) == s # <<>> /\ \A i \in 1..Len(s) : s[i] \in Digits

RECURSIVE DigitPrefixLen(_)
DigitPrefixLen(s) ==
    IF s # <<>> /\ Head(s) \in Digits THEN 1 + DigitPrefixLen(Tail(s)) ELSE 0

RECURSIVE DecimalValue(_)
DecimalValue(s) ==
    IF s = <<>> THEN 0
    ELSE 10 * DecimalValue(SubSeq(s, 1, Len(s) - 1)) + DigitVal(s[Len(s)])

\* parseInt(s): leading white space is skipped, an optional sign is read,
\* then the longest prefix of decimal digits; no digit gives NaN.
parseInt(s) ==
    LET t    == TrimLeft(s)
        neg  == t # <<>> /\ Head(t) = "-"
        body == IF t # <<>> /\ Head(t) \in {"-", "+"} THEN Tail(t) ELSE t
        n    == DigitPrefixLen(body)
        v    == DecimalValue(SubSeq(body, 1, n))
    IN  IF n = 0 THEN [isNaN |-> TRUE, val |-> 0]
        ELSE [isNaN |-> FALSE, val |-> IF neg THEN 0 - v ELSE v]

(***************************************************************************)
(* Message texts                                                           *)
(***************************************************************************)
YES    == <<"y", "e", "s">>
NO     == <<"n", "o">>
TAKEN  == <<"t", "a", "k", "e", "n">>
MISSED == <<"m", "i", "s", "s", "e", "d">>
HI     == <<"h", "i">>
SAME   == <<"s", "a", "m", "e">>

(***************************************************************************)
(* Identity normalizer                                                     *)
(***************************************************************************)
WA == "whatsapp:"

RECURSIVE FirstIndexOf(_, _)
\* index of the first occurrence of token t in s, 0 when absent
FirstIndexOf(s, t) ==
    IF s = <<>> THEN 0
    ELSE IF Head(s) = t THEN 1
    ELSE LET r == FirstIndexOf(Tail(s), t) IN IF r = 0 THEN 0 ELSE r + 1

\* phoneNumber.replace('whatsapp:', ''): a string pattern replaces the FIRST
\* occurrence only, wherever it stands
standardizePhoneNumber(phoneNumber) ==
    LET i == FirstIndexOf(phoneNumber, WA)
    IN  IF i = 0 THEN phoneNumber
        ELSE SubSeq(phoneNumber, 1, i - 1) \o SubSeq(phoneNumber, i + 1, Len(phoneNumber))

(***************************************************************************)
(* Session shapes.  An absent entry of a session map is the record Absent  *)
(* / NoStage...; a JavaScript undefined field is the string "undefined".   *)
(***************************************************************************)
Raw  == <<WA, "+91">>
Std  == <<"+91">>
Keys == {Raw, Std}

\* general (user) session: { type, stage, options, originalResponse, reminderData }
UserSess(type, stage, options, originalResponse, reminderData) ==
    [type |-> type, stage |-> stage, options |-> options,
     originalResponse |-> originalResponse, reminderData |-> reminderData]

NoUserSession == UserSess("absent", "undefined", <<>>, <<>>, "undefined")
Plain(type, stage) == UserSess(type, stage, <<>>, <<>>, "undefined")

\* medication-wizard session: stage is the token sequence of its string form,
\* the number 1 being <<"1">> and 'update_dosage' being <<"update_", "dosage">>
MedSess(stage) == [present |-> TRUE, stage |-> stage]
NoMedSession  == [present |-> FALSE, stage |-> <<>>]

\* account-creation session
AccSess(stage) == [present |-> TRUE, stage |-> stage]
NoAccSession  == [present |-> FALSE, stage |-> "undefined"]

\* active check-in conversation and reminder record
CheckIn(state) == [present |-> TRUE, conversationState |-> state]
NoCheckIn      == [present |-> FALSE, conversationState |-> "undefined"]

Reminder(medicine, responded, status) ==
    [present |-> TRUE, medicine |-> medicine, responded |-> responded, status |-> status]
NoReminder == [present |-> FALSE, medicine |-> "undefined", responded |-> FALSE,
               status |-> "undefined"]

startsWith(stage, prefix) == stage # <<>> /\ Head(stage) = prefix

(***************************************************************************)
(* Conversation Conflict Detector                                          *)
(***************************************************************************)
Kinds == {"medication_reminder", "symptom_emergency", "check_in_response",
          "symptom_assessment", "medication_management", "account_creation",
          "menu_navigation", "general_query"}

\* a plausible slip: check-ins given the rank of the medication wizard
CONVERSATION_PRIORITIES_tied(kind) ==
    CASE kind = "medication_reminder"   -> 100
      [] kind = "symptom_emergency"     -> 90
      [] kind = "check_in_response"     -> 60
      [] kind = "symptom_assessment"    -> 70
      [] kind = "medication_management" -> 60
      [] kind = "account_creation"      -> 50
      [] kind = "menu_navigation"       -> 40
      [] kind = "general_query"         -> 10

CONVERSATION_PRIORITIES(kind) ==
    CASE kind = "medication_reminder"   -> 100
      [] kind = "symptom_emergency"     -> 90
      [] kind = "check_in_response"     -> 80
      [] kind = "symptom_assessment"    -> 70
      [] kind = "medication_management" -> 60
      [] kind = "account_creation"      -> 50
      [] kind = "menu_navigation"       -> 40
      [] kind = "general_query"         -> 10

\* one active-conversation record; description is the text of the template
\* literal, kept as its fixed label and the interpolated value
Conv(type, label, data) ==
    [type |-> type, priority |-> CONVERSATION_PRIORITIES(type),
     data |-> data, description |-> [label |-> label, arg |-> data]]

RECURSIVE InsertByPriority(_, _)
\* position of c in an already sorted list: after every record whose
\* priority is not lower (Array.prototype.sort is stable)
InsertByPriority(sorted, c) ==
    IF sorted = <<>> THEN <<c>>
    ELSE IF Head(sorted).priority >= c.priority
         THEN <<Head(sorted)>> \o InsertByPriority(Tail(sorted), c)
         ELSE <<c>> \o sorted

RECURSIVE SortByPriority(_)
\* activeConversations.sort((a, b) => b.priority - a.priority)
SortByPriority(list) ==
    IF list = <<>> THEN <<>>
    ELSE InsertByPriority(SortByPriority(SubSeq(list, 1, Len(list) - 1)), list[Len(list)])

\* the record pushed for a general session (lines 49-71)
UserSessionConv(userSession) ==
    IF userSession.type = "symptom"
    THEN Conv("symptom_assessment", "Symptom assessment", <<userSession.stage>>)
    ELSE IF userSession.type = "follow_up"
    THEN Conv("symptom_assessment", "Symptom follow-up", <<userSession.stage>>)
    ELSE IF userSession.stage = "main_menu" \/ userSession.stage = "medication_menu"
    THEN Conv("menu_navigation", "Menu navigation", <<userSession.stage>>)
    ELSE Conv("general_query", "Unknown conversation", <<>>)

\* the list built by the five pushes, in source order, before the sort
ActiveConversationsOf(accountCreationSession, userSession, medicationSession, checkInSession, latestReminder) ==
    (IF accountCreationSession.present
     THEN <<Conv("account_creation", "Account creation", <<accountCreationSession.stage>>)>>
     ELSE <<>>)
    \o (IF userSession.type # "absent" THEN <<UserSessionConv(userSession)>> ELSE <<>>)
    \o (IF medicationSession.present
        THEN <<Conv("medication_management", "Medication management", medicationSession.stage)>>
        ELSE <<>>)
    \o (IF checkInSession.present
        THEN <<Conv("check_in_response", "Check-in", <<checkInSession.conversationState>>)>>
        ELSE <<>>)
    \o (IF latestReminder.present /\ ~latestReminder.responded
        THEN <<Conv("medication_reminder", "Medication reminder", <<latestReminder.medicine>>)>>
        ELSE <<>>)

\* the result object with a conflict reported for a single conversation
ConflictInfo_any(activeConversations) ==
    [hasConflict |-> Len(activeConversations) > 0,
     activeConversations |-> activeConversations]

\* the result object of detectConversationConflicts
ConflictInfo(activeConversations) ==
    [hasConflict |-> Len(activeConversations) > 1,
     activeConversations |-> activeConversations]

(***************************************************************************)
(* Disambiguation Resolver                                                 *)
(***************************************************************************)
HasKind(conversations, kind) ==
    \E i \in 1..Len(conversations) : conversations[i].type = kind

\* conversations.find(conv => conv.type === kind), for a kind that is present
FindKind(conversations, kind) ==
    conversations[CHOOSE i \in 1..Len(conversations) :
                     /\ conversations[i].type = kind
                     /\ \A j \in 1..(i - 1) : conversations[j].type # kind]

NoTarget == [type |-> "null", priority |-> 0, data |-> <<>>,
             description |-> [label |-> "null", arg |-> <<>>]]

Resolution(needs, conflictType, options, target) ==
    [needsDisambiguation |-> needs, conflictType |-> conflictType,
     options |-> options, targetConversation |-> target]

IsMenuOrSymptom(conv) == conv.type = "menu_navigation" \/ conv.type = "symptom_assessment"

\* the reply compared as it was typed, neither trimmed nor lower-cased
handleDisambiguation_exact(userResponse, conflictInfo) ==
    LET normalizedResponse == userResponse
        conversations == conflictInfo.activeConversations
    IN  IF ~conflictInfo.hasConflict
        THEN Resolution(FALSE, "none", <<>>,
                        IF conversations = <<>> THEN NoTarget ELSE conversations[1])
        ELSE IF normalizedResponse \in {YES, NO, TAKEN, MISSED}
                /\ HasKind(conversations, "medication_reminder")
        THEN Resolution(FALSE, "none", <<>>, FindKind(conversations, "medication_reminder"))
        ELSE IF IsAllDigits(normalizedResponse)
                /\ HasKind(conversations, "menu_navigation")
                /\ HasKind(conversations, "symptom_assessment")
        THEN Resolution(TRUE, "menu_vs_symptom",
                        SelectSeq(conversations, IsMenuOrSymptom), NoTarget)
        ELSE Resolution(TRUE, "general", conversations, NoTarget)

\* a plausible slip: the numeric rule forgotten, every conflict is general
handleDisambiguation_nonumeric(userResponse, conflictInfo) ==
    LET normalizedResponse == trim(toLowerCase(userResponse))
        conversations == conflictInfo.activeConversations
    IN  IF ~conflictInfo.hasConflict
        THEN Resolution(FALSE, "none", <<>>,
                        IF conversations = <<>> THEN NoTarget ELSE conversations[1])
        ELSE IF normalizedResponse \in {YES, NO, TAKEN, MISSED}
                /\ HasKind(conversations, "medication_reminder")
        THEN Resolution(FALSE, "none", <<>>, FindKind(conversations, "medication_reminder"))
        ELSE Resolution(TRUE, "general", conversations, NoTarget)

handleDisambiguation(userResponse, conflictInfo) ==
    LET normalizedResponse == trim(toLowerCase(userResponse))
        conversations == conflictInfo.activeConversations
    IN  IF ~conflictInfo.hasConflict
        THEN Resolution(FALSE, "none", <<>>,
                        IF conversations = <<>> THEN NoTarget ELSE conversations[1])
        ELSE IF normalizedResponse \in {YES, NO, TAKEN, MISSED}
                /\ HasKind(conversations, "medication_reminder")
        THEN Resolution(FALSE, "none", <<>>, FindKind(conversations, "medication_reminder"))
        ELSE IF IsAllDigits(normalizedResponse)
                /\ HasKind(conversations, "menu_navigation")
                /\ HasKind(conversations, "symptom_assessment")
        THEN Resolution(TRUE, "menu_vs_symptom",
                        SelectSeq(conversations, IsMenuOrSymptom), NoTarget)
        ELSE Resolution(TRUE, "general", conversations, NoTarget)

\* the numbered items of the prompt, in the order they are printed
generateDisambiguationMessage(disambiguationInfo) ==
    IF disambiguationInfo.conflictType = "menu_vs_symptom"
    THEN << [label |-> "Menu selection", arg |-> <<>>],
            [label |-> "Symptom assessment", arg |-> <<>>] >>
    ELSE [i \in 1..Len(disambiguationInfo.options) |->
             disambiguationInfo.options[i].description]

(***************************************************************************)
(* State of the program                                                    *)
(***************************************************************************)
VARIABLES
    accountCreationSessions,  \* sessionStore.accountCreationSessions: key -> session
    userSessions,             \* sessionStore.userSessions: key -> session
    medicationSessions,       \* sessionStore.medicationSessions: key -> session
    activeCheckInSessions,    \* checkInService's map, the entry of the identity
    reminders,                \* the identity's latest row of the reminders table
    knownUser,                \* the users table holds the identity
    timers,                   \* key -> pending setTimeout(sendMainMenu) callbacks
    received,                 \* number of POSTs the webhook has received
    last,                     \* the invocation being answered (inputs, reads, effects)
    arg,                      \* input of the pure function under check
    result,                   \* its output
    applied                   \* how many times it has been applied

vars == <<accountCreationSessions, userSessions, medicationSessions,
          activeCheckInSessions, reminders, knownUser, timers, received, last,
          arg, result, applied>>

storeVars == <<accountCreationSessions, userSessions, medicationSessions,
               activeCheckInSessions, reminders, knownUser, timers, received, last>>
funVars == <<arg, result, applied>>

(***************************************************************************)
(* One router invocation works on a record st of the whole store, which    *)
(* the handlers transform:                                                 *)
(*   acs, us, ms  the three session maps        ci     the check-in entry  *)
(*   rem          the reminder row              known  the users table     *)
(*   timers       pending main-menu sends                                  *)
(*   calls        dialog handlers the router dispatched to, with the text  *)
(*   sent         kinds of the messages sent, in order                     *)
(*   writes       database writes to the medication record                 *)
(*   status       HTTP status answered (0: none yet)                       *)
(*   threw        an exception is propagating                              *)
(*   raised       an exception has been thrown, caught or not              *)
(*   responses    the number of res.send(...) calls so far                 *)
(*   declined     the probes that reported failure and were passed over     *)
(*   pendingAtCall  a disambiguation session was in the map, under some    *)
(*                key, when a dialog handler was called                    *)
(***************************************************************************)
Min(a, b) == IF a < b THEN a ELSE b

Call(st, h, body)  == [st EXCEPT !.calls = Append(@, [h |-> h, body |-> body]), !.pendingAtCall = @ \/ \E k \in DOMAIN st.us : st.us[k].type = "disambiguation"]
Send(st, kind)     == [st EXCEPT !.sent = Append(@, kind)]
Respond(st, code)  == [st EXCEPT !.status = code, !.responses = @ + 1]
Throw(st)          == [st EXCEPT !.threw = TRUE, !.raised = TRUE]
SetTimer(st, key)  == [st EXCEPT !.timers[key] = Min(@ + 1, MaxTimers)]

\* sessionStore getters: a missing key gives null
getUserSession(us, key) == IF key \in DOMAIN us THEN us[key] ELSE NoUserSession
getMedicationSession(ms, key) == IF key \in DOMAIN ms THEN ms[key] ELSE NoMedSession
getAccountCreationSession(acs, key) == IF key \in DOMAIN acs THEN acs[key] ELSE NoAccSession

\* sessionStore setters and deleters (the timestamp is not kept here)
setUserSession(st, key, s)    == [st EXCEPT !.us[key] = s]
deleteUserSession(st, key)    == [st EXCEPT !.us[key] = NoUserSession]
setMedicationSession(st, key, s) == [st EXCEPT !.ms[key] = s]
deleteMedicationSession(st, key) == [st EXCEPT !.ms[key] = NoMedSession]
setAccountCreationSession(st, key, s) == [st EXCEPT !.acs[key] = s]
deleteAccountCreationSession(st, key) == [st EXCEPT !.acs[key] = NoAccSession]

\* s.includes(sub)
includes(s, sub) ==
    \E i \in 1..(Len(s) - Len(sub) + 1) : SubSeq(s, i, i + Len(sub) - 1) = sub

Txt1 == <<"1">>
Txt2 == <<"2">>
Txt3 == <<"3">>
Txt4 == <<"4">>

\* parseInt(text) - 1 is a valid index of a list of n elements
ValidIndex(text, n) ==
    LET p == parseInt(text) IN ~p.isNaN /\ p.val - 1 >= 0 /\ p.val - 1 < n

(***************************************************************************)
(* menuHandler                                                             *)
(***************************************************************************)
sendMainMenu(st, from) ==
    Send(setUserSession(st, from, Plain("undefined", "main_menu")), "menu")

sendMedicationMenu(st, from) ==
    Send(setUserSession(st, from, Plain("undefined", "medication_menu")), "menu")

\* the welcome text now, the main menu (and its session) one second later
showWelcomeMenu(st, from) == Respond(SetTimer(Send(st, "text"), from), 200)

showMainMenu(st, from) == Respond(sendMainMenu(st, from), 200)

(***************************************************************************)
(* symptomHandler                                                          *)
(***************************************************************************)
startSymptomAssessment(st, from) ==
    Respond(Send(setUserSession(st, from, Plain("symptom", "primary")), "text"), 200)

\* o.done: the question generator returned the final assessment
continueSymptomAssessment(st, from, o) ==
    LET userSession == getUserSession(st.us, from)
    IN  IF userSession.type # "symptom"
        THEN startSymptomAssessment(Send(st, "restart"), from)
        ELSE IF userSession.stage = "primary"
        THEN Respond(Send(setUserSession(st, from, Plain("symptom", "follow_up")), "text"), 200)
        ELSE IF userSession.stage = "follow_up"
        THEN IF o.done
             THEN Respond(SetTimer(deleteUserSession(Send(st, "text"), from), from), 200)
             ELSE Respond(Send(setUserSession(st, from, userSession), "text"), 200)
        ELSE startSymptomAssessment(Send(st, "restart"), from)

(***************************************************************************)
(* followUpHandler.  o.db: the assessments table returned an active        *)
(* assessment; o.ok: the follow-up processor reported success.             *)
(***************************************************************************)
ClearFollowUp(st, from, standardizedFrom) ==
    LET a == deleteUserSession(st, from)
    IN  IF from # standardizedFrom THEN deleteUserSession(a, standardizedFrom) ELSE a

handleFollowUpResponse(st, from, body, o) ==
    LET incomingMsg == trim(body)
        standardizedFrom == standardizePhoneNumber(from)
        first == getUserSession(st.us, from)
        userSession == IF first.type # "follow_up"
                       THEN getUserSession(st.us, standardizedFrom) ELSE first
        sorry == Respond(SetTimer(Send(st, "sorry"), from), 200)
    IN  IF userSession.type # "follow_up" /\ incomingMsg \in {Txt1, Txt2, Txt3, Txt4}
        THEN IF o.db /\ o.ok
             THEN Respond(SetTimer(Send(st, "text"), from), 200)
             ELSE sorry
        ELSE IF userSession.type # "follow_up"
        THEN sorry
        ELSE IF userSession.stage = "status"
        THEN IF ~o.ok
             THEN Respond(SetTimer(ClearFollowUp(Send(st, "sorry"), from, standardizedFrom), from), 200)
             ELSE Respond(SetTimer(ClearFollowUp(Send(st, "text"), from, standardizedFrom), from), 200)
        ELSE IF userSession.stage = "selection"
        THEN IF ~ValidIndex(incomingMsg, MaxMeds)
             THEN Respond(Send(st, "invalid"), 200)
             ELSE LET a == setUserSession(st, from, Plain("follow_up", "status"))
                      b == IF from # standardizedFrom
                           THEN setUserSession(a, standardizedFrom, Plain("follow_up", "status"))
                           ELSE a
                  IN  Respond(Send(b, "text"), 200)
        ELSE Respond(SetTimer(ClearFollowUp(Send(st, "sorry"), from, standardizedFrom), from), 200)

\* o.db: the number of active assessments is not zero; o.done: it is one
showSymptomStatus(st, from, o) ==
    LET standardizedFrom == standardizePhoneNumber(from)
        stage == IF o.done THEN "status" ELSE "selection"
        a == setUserSession(st, from, Plain("follow_up", stage))
        b == IF from # standardizedFrom
             THEN setUserSession(a, standardizedFrom, Plain("follow_up", stage)) ELSE a
    IN  IF ~o.db
        THEN Respond(SetTimer(Send(st, "text"), from), 200)
        ELSE Respond(Send(b, "text"), 200)

(***************************************************************************)
(* medicationHandler.  o.db: the medications table returned a non-empty    *)
(* list; o.ok: the write of the wizard's last step succeeded.  A stored    *)
(* list has MaxMeds entries.  The stages that only collect one answer each *)
(* are kept as one: 'add_dosage' stands for add_dosage, add_frequency and  *)
(* add_duration, 'update_name' for update_name to update_duration; o.done: *)
(* the answer is the last of its chain.                                    *)
(***************************************************************************)
Stage1 == <<"1">>
Stage2 == <<"2">>
AddStage(step)    == <<"add_", step>>
UpdateStage(step) == <<"update_", step>>
DeleteStage(step) == <<"delete_", step>>

startAddMedication(st, from) ==
    Respond(Send(setMedicationSession(st, from, MedSess(Stage1)), "text"), 200)

\* the wizard's step: store the answer, move to the next stage, ask again
Advance(st, from, stage) ==
    Respond(Send(setMedicationSession(st, from, MedSess(stage)), "text"), 200)

continueAddMedication(st, from, body, o) ==
    LET medicationSession == getMedicationSession(st.ms, from)
        stage == medicationSession.stage
    IN  IF ~medicationSession.present THEN Throw(st)
        ELSE IF stage = Stage1 THEN Advance(st, from, Stage2)
        ELSE IF stage = Stage2 THEN Advance(st, from, AddStage("dosage"))
        ELSE IF stage = AddStage("dosage")
        THEN IF ~o.done THEN Advance(st, from, AddStage("dosage"))
             ELSE IF o.ok
             THEN Respond(SetTimer(deleteMedicationSession(Send(st, "text"), from), from), 200)
             ELSE Respond(deleteMedicationSession(Send(st, "sorry"), from), 200)
        ELSE st

startMedicationUpdate(st, from, o) ==
    IF ~o.db
    THEN Respond(deleteMedicationSession(Send(st, "text"), from), 200)
    ELSE Respond(Send(setMedicationSession(st, from, MedSess(UpdateStage("start"))), "text"), 200)

continueMedicationUpdate(st, from, body, o) ==
    LET medicationSession == getMedicationSession(st.ms, from)
        stage == medicationSession.stage
        incomingMsg == trim(body)
    IN  IF ~medicationSession.present THEN Throw(st)
        ELSE IF stage = UpdateStage("start")
        THEN IF ~ValidIndex(incomingMsg, MaxMeds)
             THEN Respond(Send(st, "invalid"), 200)
             ELSE Advance(st, from, UpdateStage("name"))
        ELSE IF stage = UpdateStage("name")
        THEN IF ~o.done THEN Advance(st, from, UpdateStage("name"))
             ELSE IF o.ok
             THEN Respond(SetTimer(deleteMedicationSession(Send(st, "text"), from), from), 200)
             ELSE Respond(deleteMedicationSession(Send(st, "sorry"), from), 200)
        ELSE st

startMedicationDeletion(st, from, o) ==
    IF ~o.db
    THEN Respond(SetTimer(deleteMedicationSession(Send(st, "text"), from), from), 200)
    ELSE Respond(Send(setMedicationSession(st, from, MedSess(DeleteStage("select"))), "text"), 200)

continueMedicationDeletion(st, from, body, o) ==
    LET medicationSession == getMedicationSession(st.ms, from)
        stage == medicationSession.stage
        incomingMsg == trim(body)
        close == Respond(SetTimer(deleteMedicationSession(Send(st, "text"), from), from), 200)
    IN  IF ~medicationSession.present THEN Throw(st)
        ELSE IF stage = DeleteStage("select")
        THEN IF ~ValidIndex(incomingMsg, MaxMeds)
             THEN Respond(Send(st, "invalid"), 200)
             ELSE Advance(st, from, DeleteStage("confirm"))
        ELSE close

showMedicationHistory(st, from) == Respond(SetTimer(Send(st, "text"), from), 200)

\* menuHandler.handleMedicationInfoRequest
handleMedicationInfoRequest(st, from, o) ==
    IF ~o.db
    THEN Respond(sendMedicationMenu(Send(st, "text"), from), 200)
    ELSE Respond(Send(setUserSession(st, from, Plain("undefined", "medication_info_selection")),
                      "text"), 200)

\* userSession.medications exists only on a medication_info_selection session
handleMedicationInfoSelection(st, from, body) ==
    LET userSession == getUserSession(st.us, from)
        p == parseInt(trim(body))
    IN  IF p.isNaN \/ p.val - 1 < 0
        THEN Respond(Send(st, "invalid"), 200)
        ELSE IF userSession.stage # "medication_info_selection"
        THEN Throw(st)
        ELSE IF p.val - 1 >= MaxMeds
        THEN Respond(Send(st, "invalid"), 200)
        ELSE Respond(SetTimer(Send(st, "text"), from), 200)

(***************************************************************************)
(* Reminder responses.  o.db: the write to the medication record           *)
(* succeeded; o.ok: the update of the reminder row succeeded.              *)
(***************************************************************************)
\* ReminderModel.getLatestReminder: the newest row inside the 60 minute
\* window with responded = false (the second definition of the key wins)
getLatestReminder(rem) == IF rem.present /\ ~rem.responded THEN rem ELSE NoReminder

\* ReminderModel.updateReminder / markReminderSkipped on the row
updateReminder(st, status, succeeds) ==
    IF succeeds /\ st.rem.present
    THEN [st EXCEPT !.rem = [@ EXCEPT !.responded = TRUE, !.status = status]]
    ELSE st

Write(st, what) == [st EXCEPT !.writes = Append(@, what)]

handleMedicationTaken(st, from, o) ==
    LET latestReminder == getLatestReminder(st.rem)
    IN  IF latestReminder.present /\ ~latestReminder.responded
        THEN IF o.db
             THEN Respond(updateReminder(Send(Write(st, "taken"), "text"), "taken", o.ok), 200)
             ELSE Respond(Send(st, "sorry"), 200)
        ELSE Respond(Send(st, "unknown"), 200)

\* medicationService.scheduleFollowUpReminder: a row still unresponded is
\* marked postponed; the new reminder is sent later by the scheduler
scheduleFollowUpReminder(st, o) ==
    IF getLatestReminder(st.rem).present THEN updateReminder(st, "postponed", o.ok) ELSE st

handleMedicationMissed(st, from, o) ==
    LET latestReminder == getLatestReminder(st.rem)
    IN  IF latestReminder.present /\ ~latestReminder.responded
        THEN IF o.db
             THEN Respond(Send(scheduleFollowUpReminder(
                                   updateReminder(Write(st, "missed"), "missed", o.ok), o),
                               "text"), 200)
             ELSE Respond(Send(st, "sorry"), 200)
        ELSE Respond(Send(st, "unknown"), 200)

(***************************************************************************)
(* menu selections                                                         *)
(***************************************************************************)
Word ==
    [ symptom |-> <<"s", "y", "m", "p", "t", "o", "m">>,
      check |-> <<"c", "h", "e", "c", "k">>,
      medication |-> <<"m", "e", "d", "i", "c", "a", "t", "i", "o", "n">>,
      medicine |-> <<"m", "e", "d", "i", "c", "i", "n", "e">>,
      add |-> <<"a", "d", "d">>,
      update |-> <<"u", "p", "d", "a", "t", "e">>,
      delete |-> <<"d", "e", "l", "e", "t", "e">>,
      info |-> <<"i", "n", "f", "o">>,
      history |-> <<"h", "i", "s", "t", "o", "r", "y">>,
      week |-> <<"w", "e", "e", "k">>,
      all |-> <<"a", "l", "l">>,
      back |-> <<"b", "a", "c", "k">>,
      main |-> <<"m", "a", "i", "n">> ]

handleMainMenuSelection(st, from, body) ==
    LET incomingMsgLower == toLowerCase(trim(body))
    IN  IF incomingMsgLower = Txt1 \/ includes(incomingMsgLower, Word.symptom)
           \/ includes(incomingMsgLower, Word.check)
        THEN Respond(Send(setUserSession(st, from, Plain("symptom", "primary")), "text"), 200)
        ELSE IF incomingMsgLower = Txt2 \/ includes(incomingMsgLower, Word.medication)
                \/ includes(incomingMsgLower, Word.medicine)
        THEN Respond(sendMedicationMenu(st, from), 200)
        ELSE Respond(Send(st, "invalid"), 200)

handleMedicationMenuSelection(st, from, body, o) ==
    LET m == toLowerCase(trim(body))
    IN  IF m = Txt1 \/ includes(m, Word.add) THEN startAddMedication(st, from)
        ELSE IF m = Txt2 \/ includes(m, Word.update) THEN startMedicationUpdate(st, from, o)
        ELSE IF m = Txt3 \/ includes(m, Word.delete) THEN startMedicationDeletion(st, from, o)
        ELSE IF m = Txt4 \/ includes(m, Word.info) THEN handleMedicationInfoRequest(st, from, o)
        ELSE IF m = <<"5">> \/ (includes(m, Word.history) /\ includes(m, Word.week))
        THEN showMedicationHistory(st, from)
        ELSE IF m = <<"6">> \/ (includes(m, Word.all) /\ includes(m, Word.history))
        THEN showMedicationHistory(st, from)
        ELSE IF m = <<"7">> \/ includes(m, Word.back) \/ includes(m, Word.main)
        THEN showMainMenu(st, from)
        ELSE Respond(Send(st, "invalid"), 200)

(***************************************************************************)
(* accountHandler.  The wizard's stages after the choice of the account    *)
(* type only collect one answer each; the self_* chain is kept as          *)
(* 'self_name' and the parent_* chain as 'parent_count'.  o.done: the      *)
(* answer is the last of its chain; o.db: the user record was created.     *)
(***************************************************************************)
startAccountCreation(st, from) ==
    Respond(Send(setAccountCreationSession(st, from, AccSess("account_type")), "text"), 200)

continueAccountCreation(st, from, body, o) ==
    LET session == getAccountCreationSession(st.acs, from)
        m == toLowerCase(trim(body))
        next(stage) == Respond(Send(setAccountCreationSession(st, from, AccSess(stage)), "text"), 200)
    IN  IF ~session.present
        THEN startAccountCreation(Send(st, "restart"), from)
        ELSE IF session.stage = "account_type"
        THEN IF m = Txt1 THEN next("self_name")
             ELSE IF m = Txt2 THEN next("parent_count")
             ELSE Respond(Send(st, "invalid"), 200)
        ELSE IF session.stage \in {"self_name", "parent_count"}
        THEN IF ~o.done THEN next(session.stage)
             ELSE IF o.db
             THEN Respond([deleteAccountCreationSession(Send(st, "text"), from)
                               EXCEPT !.known = TRUE], 200)
             ELSE Respond(deleteAccountCreationSession(Send(st, "sorry"), from), 200)
        ELSE startAccountCreation(Send(st, "restart"), from)

(***************************************************************************)
(* checkInService.  o.ok: the analysis of the reply succeeded; o.done: no  *)
(* further follow-up question is needed; o.db: the check-in was saved.     *)
(***************************************************************************)
\* finalizeCheckIn: the entry is removed whether or not the save succeeds
finalizeCheckIn(st, o) ==
    [st |-> [st EXCEPT !.ci = NoCheckIn], success |-> o.db, conversationComplete |-> o.db]

processCheckInResponse(st, o) ==
    LET session == st.ci
        failed == [st |-> st, success |-> FALSE, conversationComplete |-> FALSE]
        ask(state) == [st |-> [st EXCEPT !.ci = CheckIn(state)],
                       success |-> TRUE, conversationComplete |-> FALSE]
    IN  IF ~session.present THEN failed
        ELSE IF ~o.ok THEN failed
        ELSE IF session.conversationState = "initial"
        THEN IF ~o.done THEN ask("follow_up_1") ELSE finalizeCheckIn(st, o)
        ELSE IF session.conversationState = "follow_up_1"
        THEN IF ~o.done THEN ask("follow_up_2") ELSE finalizeCheckIn(st, o)
        ELSE IF session.conversationState = "follow_up_2"
        THEN finalizeCheckIn(st, o)
        ELSE failed

\* the active check-in entry of an identity, or none
getActiveCheckInSession(ci) == ci

\* removes the active check-in entry of an identity
clearActiveCheckInSession(st) == [st EXCEPT !.ci = NoCheckIn]

(***************************************************************************)
(* Dispatch Router: router.post('/')                                       *)
(*                                                                         *)
(* The record st also carries what the invocation observed:                *)
(*   ret       the router has returned                                     *)
(*   path      the branch that returned                                    *)
(*   seen      the detector's list (PART 1), selected  the option chosen   *)
(*   found     the sessions the lookups of PART 3 returned                 *)
(* A probe (check-in, numeric follow-up) that declines the message is not  *)
(* entered in calls; a dispatch chosen by the router is, whatever it does. *)
(***************************************************************************)
Ret(st, path) == [st EXCEPT !.ret = TRUE, !.path = path]

\* a || b on two session lookups
OrUser(a, b) == IF a.type # "absent" THEN a ELSE b
OrPresent(a, b) == IF a.present THEN a ELSE b

IsMedResponse(lower) == lower \in {YES, NO, TAKEN, MISSED}
IsAffirmative(text) == toLowerCase(text) = YES \/ toLowerCase(text) = TAKEN

\* try { ... } catch: the handler's effects stay, the exception is answered
\* with an apology and status 200
CatchLocal(st, path) ==
    IF st.threw THEN Ret(Respond(Send([st EXCEPT !.threw = FALSE], "sorry"), 200), path)
    ELSE st

\* the taken / missed dispatch shared by PART 0 and PART 2
MedicationResponse(st, from, text, o) ==
    IF IsAffirmative(text)
    THEN handleMedicationTaken(Call(st, "handleMedicationTaken", text), from, o)
    ELSE handleMedicationMissed(Call(st, "handleMedicationMissed", text), from, o)

ClearBoth(st, from, standardizedFrom) ==
    deleteUserSession(deleteUserSession(st, from), standardizedFrom)

\* the follow-up of a processed check-in reply is sent, and the main menu
\* is scheduled once the check-in conversation is complete
SendFollowUp(checkInResult, from) ==
    IF checkInResult.conversationComplete
    THEN SetTimer(Send(checkInResult.st, "text"), from)
    ELSE Send(checkInResult.st, "text")

\* lines 109-136 with the return of the failure branch forgotten
AfterCheckInChoice_noreply(checkInResult, from) ==
    IF checkInResult.success
    THEN Respond(SendFollowUp(checkInResult, from), 200)
    ELSE SetTimer(checkInResult.st, from)

\* lines 109-136
AfterCheckInChoice(checkInResult, from) ==
    IF checkInResult.success
    THEN Respond(SendFollowUp(checkInResult, from), 200)
    ELSE Respond(SetTimer(checkInResult.st, from), 200)

\* ReminderModel.markReminderSkipped, when the stored reminder has an id
SkipStoredReminder(st, userSession, o) ==
    IF userSession.reminderData # "undefined" THEN updateReminder(st, "skipped", o.db) ELSE st

\* PART 0, stage 'reminder_vs_checkin' (lines 58-144)
ReminderVsCheckIn(st, from, standardizedFrom, incomingMsg, userSession, o) ==
    IF incomingMsg = Txt1
    THEN CatchLocal(Ret(MedicationResponse(
                            clearActiveCheckInSession(ClearBoth(st, from, standardizedFrom)),
                            from, userSession.originalResponse, o),
                        "rvc_reminder"), "rvc_reminder")
    ELSE IF incomingMsg = Txt2
    THEN Ret(AfterCheckInChoice(
                 processCheckInResponse(
                     Call(SkipStoredReminder(ClearBoth(st, from, standardizedFrom),
                                             userSession, o),
                          "processCheckInResponse", userSession.originalResponse), o),
                 from), "rvc_checkin")
    ELSE Ret(Respond(Send(st, "reprompt"), 200), "rvc_invalid")

\* the switch on the selected option's type (lines 166-228)
Fallback(st, from) == Respond(sendMainMenu(Send(st, "fallback"), from), 200)

\* lines 181-191: a reply the check-in processor rejects runs into the
\* fallback of lines 226-228
AfterCheckInOption(checkInResult, from) ==
    IF checkInResult.success
    THEN Respond(SendFollowUp(checkInResult, from), 200)
    ELSE Fallback(checkInResult.st, from)

DispatchSelected(st, from, selectedOption, originalResponse, o) ==
    LET stage == selectedOption.data
    IN  IF selectedOption.type = "medication_reminder"
        THEN MedicationResponse(st, from, originalResponse, o)
        ELSE IF selectedOption.type = "check_in_response"
        THEN AfterCheckInOption(
                 processCheckInResponse(
                     Call(st, "processCheckInResponse", originalResponse), o), from)
        ELSE IF selectedOption.type = "symptom_assessment"
        THEN continueSymptomAssessment(
                 Call(st, "continueSymptomAssessment", originalResponse), from, o)
        ELSE IF selectedOption.type = "menu_navigation"
        THEN IF stage = <<"main_menu">>
             THEN handleMainMenuSelection(
                      Call(st, "handleMainMenuSelection", originalResponse), from, originalResponse)
             ELSE handleMedicationMenuSelection(
                      Call(st, "handleMedicationMenuSelection", originalResponse),
                      from, originalResponse, o)
        ELSE IF selectedOption.type = "medication_management"
        THEN IF stage = Stage1 \/ stage = Stage2 \/ startsWith(stage, "add_")
             THEN continueAddMedication(
                      Call(st, "continueAddMedication", originalResponse), from, originalResponse, o)
             ELSE IF startsWith(stage, "update_")
             THEN continueMedicationUpdate(
                      Call(st, "continueMedicationUpdate", originalResponse), from, originalResponse, o)
             ELSE IF startsWith(stage, "delete_")
             THEN continueMedicationDeletion(
                      Call(st, "continueMedicationDeletion", originalResponse), from, originalResponse, o)
             ELSE Fallback(st, from)
        ELSE Fallback(st, from)

\* const optionIndex = parseInt(incomingMsg) - 1, as the number before the
\* subtraction
OptionIndex(incomingMsg) == parseInt(incomingMsg)

\* PART 0, stage 'general' (lines 146-241)
\* the catch of lines 230-240
CatchGeneral(st, from, standardizedFrom) ==
    IF st.threw
    THEN Respond(sendMainMenu(
             Send(ClearBoth([st EXCEPT !.threw = FALSE], from, standardizedFrom), "sorry"),
             from), 200)
    ELSE st

Select(st, selectedOption) == [st EXCEPT !.selected = selectedOption]

GeneralDisambiguation(st, from, standardizedFrom, incomingMsg, userSession, o) ==
    LET p == OptionIndex(incomingMsg)
        optionIndex == p.val - 1
    IN  IF p.isNaN \/ optionIndex < 0 \/ optionIndex >= Len(userSession.options)
        THEN Ret(Respond(Send(st, "reprompt"), 200), "general_invalid")
        ELSE Ret(CatchGeneral(
                     DispatchSelected(
                         Select(ClearBoth(st, from, standardizedFrom),
                                userSession.options[optionIndex + 1]),
                         from, userSession.options[optionIndex + 1],
                         userSession.originalResponse, o),
                     from, standardizedFrom), "general_choice")

\* PART 0 (lines 51-242): a session of type disambiguation with another
\* stage falls through
PendingDisambiguation(st, from, standardizedFrom, incomingMsg, o) ==
    LET userSession == OrUser(getUserSession(st.us, from),
                              getUserSession(st.us, standardizedFrom))
    IN  IF userSession.type = "disambiguation" /\ userSession.stage = "reminder_vs_checkin"
        THEN ReminderVsCheckIn(st, from, standardizedFrom, incomingMsg, userSession, o)
        ELSE IF userSession.type = "disambiguation" /\ userSession.stage = "general"
        THEN GeneralDisambiguation(st, from, standardizedFrom, incomingMsg, userSession, o)
        ELSE st

(***************************************************************************)
(* PART 1 and PART 2: conflict detection and reminder replies              *)
(***************************************************************************)
\* the detector reading the general session under the prefixed key as
\* well, and reporting both
detectConversationConflicts_bothkeys(userPhone, st, checkInSession) ==
    LET standardizedPhone == standardizePhoneNumber(userPhone)
        prefixed == getUserSession(st.us, <<WA>> \o standardizedPhone)
    IN  ConflictInfo(SortByPriority(
            ActiveConversationsOf(
                getAccountCreationSession(st.acs, standardizedPhone),
                getUserSession(st.us, standardizedPhone),
                getMedicationSession(st.ms, standardizedPhone),
                checkInSession,
                getLatestReminder(st.rem))
            \o (IF prefixed.type # "absent" THEN <<UserSessionConv(prefixed)>> ELSE <<>>)))

\* conversationUtils.detectConversationConflicts: every lookup uses the
\* identity without its first 'whatsapp:' and nothing else
detectConversationConflicts(userPhone, st, checkInSession) ==
    LET standardizedPhone == standardizePhoneNumber(userPhone)
    IN  ConflictInfo(SortByPriority(ActiveConversationsOf(
            getAccountCreationSession(st.acs, standardizedPhone),
            getUserSession(st.us, standardizedPhone),
            getMedicationSession(st.ms, standardizedPhone),
            checkInSession,
            getLatestReminder(st.rem))))

\* the pending-disambiguation session written under the sender's key and,
\* when it differs, under the standardized key
StoreDisambiguation(st, from, standardizedFrom, session) ==
    LET a == setUserSession(st, from, session)
    IN  IF standardizedFrom # from THEN setUserSession(a, standardizedFrom, session) ELSE a

\* PART 1 (lines 248-312)
Seen(st, conflictInfo) == [st EXCEPT !.seen = conflictInfo.activeConversations]

Prompted(st, disambiguationResult) ==
    [st EXCEPT !.prompt = generateDisambiguationMessage(disambiguationResult)]

\* lines 280-311
AskWhich(st, from, standardizedFrom, incomingMsg, disambiguationResult) ==
    Respond(Send(Prompted(StoreDisambiguation(st, from, standardizedFrom,
                              UserSess("disambiguation", "general",
                                       disambiguationResult.options, incomingMsg, "undefined")),
                          disambiguationResult),
                 "prompt"), 200)

\* lines 260-312
ManageConflict(st, from, standardizedFrom, incomingMsg, conflictInfo, disambiguationResult) ==
    IF conflictInfo.hasConflict /\ disambiguationResult.needsDisambiguation
    THEN Ret(AskWhich(Seen(st, conflictInfo), from, standardizedFrom, incomingMsg,
                      disambiguationResult), "general_prompt")
    ELSE Seen(st, conflictInfo)

WithConflictInfo(st, from, standardizedFrom, incomingMsg, conflictInfo) ==
    ManageConflict(st, from, standardizedFrom, incomingMsg, conflictInfo,
                   handleDisambiguation(incomingMsg, conflictInfo))

DetectAndAsk(st, from, standardizedFrom, incomingMsg) ==
    WithConflictInfo(st, from, standardizedFrom, incomingMsg,
                     detectConversationConflicts(standardizedFrom, st,
                                                 getActiveCheckInSession(st.ci)))

\* The scheduler runs while the router awaits: o.race is the arrival of a
\* reminder between the detector's read of the reminders table and the
\* second read of PART 2.  As in SendReminder, only a user with a record
\* has medications that fall due.
ReminderArrives(st, o) ==
    IF o.race /\ st.known /\ ~getLatestReminder(st.rem).present
    THEN [st EXCEPT !.rem = Reminder("Aspirin", FALSE, "sent")]
    ELSE st

\* PART 2 (lines 319-392); activeCheckIn and hasConflict are the values
\* PART 1 computed
\* lines 328-390, on the store as the second read finds it
WithLatestReminder(st, from, standardizedFrom, incomingMsg, activeCheckIn, hasConflict, o) ==
    LET latestReminder == getLatestReminder(st.rem)
    IN  IF ~(latestReminder.present /\ ~latestReminder.responded) THEN st
        ELSE IF activeCheckIn.present /\ activeCheckIn.conversationState # "completed"
                /\ ~hasConflict
        THEN Ret(Respond(Send(
                 StoreDisambiguation(st, from, standardizedFrom,
                     UserSess("disambiguation", "reminder_vs_checkin", <<>>,
                              incomingMsg, latestReminder.medicine)),
                 "prompt"), 200), "rvc_prompt")
        ELSE CatchLocal(Ret(MedicationResponse(ClearBoth(st, from, standardizedFrom),
                                               from, incomingMsg, o),
                            "reminder_reply"), "reminder_reply")

ReminderReply(st, from, standardizedFrom, incomingMsg, activeCheckIn, hasConflict, o) ==
    IF ~IsMedResponse(toLowerCase(incomingMsg)) THEN st
    ELSE WithLatestReminder(ReminderArrives(st, o), from, standardizedFrom, incomingMsg,
                            activeCheckIn, hasConflict, o)

(***************************************************************************)
(* The command words of the router, as texts                                *)
(***************************************************************************)
Command ==
    [ create_an_account |-> <<"c", "r", "e", "a", "t", "e", " ", "a", "n", " ", "a", "c",
                              "c", "o", "u", "n", "t">>,
      create_account |-> <<"c", "r", "e", "a", "t", "e", " ", "a", "c", "c", "o", "u", "n",
                           "t">>,
      for |-> <<"f", "o", "r", ":">>,
      add_medicine |-> <<"a", "d", "d", " ", "m", "e", "d", "i", "c", "i", "n", "e">>,
      add_medication |-> <<"a", "d", "d", " ", "m", "e", "d", "i", "c", "a", "t", "i", "o",
                           "n">>,
      hello |-> <<"h", "e", "l", "l", "o">>,
      menu |-> <<"m", "e", "n", "u">>,
      main_menu |-> <<"m", "a", "i", "n", " ", "m", "e", "n", "u">>,
      back |-> <<"b", "a", "c", "k">>,
      symptom_status |-> <<"s", "y", "m", "p", "t", "o", "m", " ", "s", "t", "a", "t", "u",
                           "s">>,
      check_symptom_status |-> <<"c", "h", "e", "c", "k", " ", "s", "y", "m", "p", "t",
                                 "o", "m", " ", "s", "t", "a", "t", "u", "s">>,
      update_medicine |-> <<"u", "p", "d", "a", "t", "e", " ", "m", "e", "d", "i", "c",
                            "i", "n", "e">>,
      delete_medicine |-> <<"d", "e", "l", "e", "t", "e", " ", "m", "e", "d", "i", "c",
                            "i", "n", "e">>,
      remove_medicine |-> <<"r", "e", "m", "o", "v", "e", " ", "m", "e", "d", "i", "c",
                            "i", "n", "e">>,
      history_week |-> <<"s", "h", "o", "w", " ", "m", "e", "d", "i", "c", "a", "t", "i",
                         "o", "n", " ", "h", "i", "s", "t", "o", "r", "y", " ", "l", "a",
                         "s", "t", " ", "w", "e", "e", "k">>,
      history_all |-> <<"s", "h", "o", "w", " ", "a", "l", "l", " ", "m", "e", "d", "i",
                        "c", "a", "t", "i", "o", "n", " ", "h", "i", "s", "t", "o", "r",
                        "y">>,
      medicine_info |-> <<"m", "e", "d", "i", "c", "i", "n", "e", " ", "i", "n", "f", "o">>,
      medication_info |-> <<"m", "e", "d", "i", "c", "a", "t", "i", "o", "n", " ", "i",
                            "n", "f", "o">>,
      drug_info |-> <<"d", "r", "u", "g", " ", "i", "n", "f", "o">>,
      about_my_medicine |-> <<"a", "b", "o", "u", "t", " ", "m", "y", " ", "m", "e", "d",
                              "i", "c", "i", "n", "e">>,
      tell_me_about |-> <<"t", "e", "l", "l", " ", "m", "e", " ", "a", "b", "o", "u", "t">>,
      what_is |-> <<"w", "h", "a", "t", " ", "i", "s">>,
      daily_report |-> <<"d", "a", "i", "l", "y", " ", "r", "e", "p", "o", "r", "t">>,
      checkin_report |-> <<"c", "h", "e", "c", "k", "-", "i", "n", " ", "r", "e", "p", "o",
                           "r", "t">>,
      activity_report |-> <<"a", "c", "t", "i", "v", "i", "t", "y", " ", "r", "e", "p",
                            "o", "r", "t">>,
      how_is_my_parent |-> <<"h", "o", "w", " ", "i", "s", " ", "m", "y", " ", "p", "a",
                             "r", "e", "n", "t">>,
      how_is_my_mom |-> <<"h", "o", "w", " ", "i", "s", " ", "m", "y", " ", "m", "o", "m">>,
      how_is_my_dad |-> <<"h", "o", "w", " ", "i", "s", " ", "m", "y", " ", "d", "a", "d">> ]

\* s.startsWith(p) and s.indexOf(' ') on texts
HasPrefix(s, p) == Len(s) >= Len(p) /\ SubSeq(s, 1, Len(p)) = p
IndexOfSpace(s) == FirstIndexOf(s, " ")

\* messageUtils.parseProxyCommand
parseProxyCommand(message) ==
    LET firstSpace == IndexOfSpace(message)
    IN  IF ~HasPrefix(toLowerCase(message), Command.for) \/ firstSpace = 0
        THEN [isNull |-> TRUE, parentPhone |-> <<>>, command |-> <<>>]
        ELSE [isNull |-> FALSE,
              parentPhone |-> trim(SubSeq(message, 5, firstSpace - 1)),
              command |-> trim(SubSeq(message, firstSpace + 1, Len(message)))]

\* proxyService.processProxyMessage.  o.db: the relationship exists; o.ok:
\* it carries the permission the command needs.  The wizard session is put
\* into the map directly, under the caregiver's standardized identity.
processProxyMessage(st, childPhone, command, o) ==
    LET standardizedChild == standardizePhoneNumber(childPhone)
    IN  IF o.db /\ o.ok /\ (HasPrefix(command, Command.add_medicine)
                             \/ HasPrefix(command, Command.add_medication))
        THEN [st EXCEPT !.ms[standardizedChild] = MedSess(Stage1)]
        ELSE st

handleProxyCommand(st, from, proxyCommand, o) ==
    Respond(Send(processProxyMessage(st, from, proxyCommand.command, o), "text"), 200)

(***************************************************************************)
(* PART 3 to PART 9                                                        *)
(***************************************************************************)
\* the three lookups, each by the sender's key and then by the
\* standardized key (lines 395, 396, 407)
LookupUser_rawonly(st, from, standardizedFrom) == getUserSession(st.us, from)

LookupUser(st, from, standardizedFrom) ==
    OrUser(getUserSession(st.us, from), getUserSession(st.us, standardizedFrom))

LookupMedication(st, from, standardizedFrom) ==
    OrPresent(getMedicationSession(st.ms, from), getMedicationSession(st.ms, standardizedFrom))

LookupAccount(st, from, standardizedFrom) ==
    OrPresent(getAccountCreationSession(st.acs, from),
              getAccountCreationSession(st.acs, standardizedFrom))

\* PART 3 (lines 395-455): the cascade over the sessions found
Found(st, from, standardizedFrom) ==
    [st EXCEPT !.found = [looked |-> TRUE,
                          user |-> LookupUser(st, from, standardizedFrom),
                          med |-> LookupMedication(st, from, standardizedFrom),
                          acc |-> LookupAccount(st, from, standardizedFrom)]]

Cascade(st, from, body, o) ==
    LET userSession == st.found.user
        medicationSession == st.found.med
        accountSession == st.found.acc
        stage == st.found.med.stage
    IN  IF accountSession.present
        THEN Ret(continueAccountCreation(Call(st, "continueAccountCreation", body), from, body, o),
                 "account")
        ELSE IF medicationSession.present
                /\ (stage = Stage1 \/ stage = Stage2 \/ startsWith(stage, "add_"))
        THEN Ret(continueAddMedication(Call(st, "continueAddMedication", body), from, body, o),
                 "medication")
        ELSE IF medicationSession.present /\ startsWith(stage, "update_")
        THEN Ret(continueMedicationUpdate(Call(st, "continueMedicationUpdate", body), from, body, o),
                 "medication")
        ELSE IF medicationSession.present /\ startsWith(stage, "delete_")
        THEN Ret(continueMedicationDeletion(Call(st, "continueMedicationDeletion", body),
                                            from, body, o), "medication")
        ELSE IF userSession.type = "symptom"
        THEN Ret(continueSymptomAssessment(Call(st, "continueSymptomAssessment", body), from, o),
                 "symptom")
        ELSE IF userSession.type = "follow_up"
        THEN Ret(handleFollowUpResponse(Call(st, "handleFollowUpResponse", body), from, body, o),
                 "follow_up")
        ELSE IF userSession.type # "absent" /\ userSession.stage = "main_menu"
        THEN Ret(handleMainMenuSelection(Call(st, "handleMainMenuSelection", body), from, body),
                 "main_menu")
        ELSE IF userSession.type # "absent" /\ userSession.stage = "medication_menu"
        THEN Ret(handleMedicationMenuSelection(Call(st, "handleMedicationMenuSelection", body),
                                               from, body, o), "medication_menu")
        ELSE IF userSession.type # "absent" /\ userSession.stage = "medication_info_selection"
        THEN Ret(handleMedicationInfoSelection(Call(st, "handleMedicationInfoSelection", body),
                                               from, body), "medication_info")
        ELSE st

ActiveSessions(st, from, standardizedFrom, body, o) ==
    Cascade(Found(st, from, standardizedFrom), from, body, o)

\* PART 4 (lines 462-490): the check-in probe
\* a probe reported failure and the router goes on (lines 487-490, 539-547)
Declined(st, probe) == [st EXCEPT !.declined = Append(@, probe)]

\* the check-in probe letting a failure reach the outer catch
Accepted_rethrows(checkInResult, from, incomingMsg) ==
    IF ~checkInResult.success THEN Throw(Declined(checkInResult.st, "processCheckInResponse"))
    ELSE Ret(Respond(SendFollowUp(
                 [checkInResult EXCEPT
                      !.st = Call(@, "processCheckInResponse", incomingMsg)], from), 200),
             "checkin")

Accepted(checkInResult, from, incomingMsg) ==
    IF ~checkInResult.success THEN Declined(checkInResult.st, "processCheckInResponse")
    ELSE Ret(Respond(SendFollowUp(
                 [checkInResult EXCEPT
                      !.st = Call(@, "processCheckInResponse", incomingMsg)], from), 200),
             "checkin")

CheckInProbe(st, from, incomingMsg, o) ==
    IF st.found.user.type # "absent" \/ st.found.med.present THEN st
    ELSE Accepted(processCheckInResponse(st, o), from, incomingMsg)

\* PART 5 (lines 497-548): a bare 1..4 against the assessments table.
\* o.db: an active assessment exists; o.ok: its follow-up was processed.
NumericProbe(st, from, incomingMsg, o) ==
    IF ~(incomingMsg \in {Txt1, Txt2, Txt3, Txt4} /\ st.found.user.type = "absent") THEN st
    ELSE IF o.db /\ o.ok
    THEN Ret(Respond(SetTimer(Send(Send(Call(st, "processFollowUpResponse", incomingMsg),
                                        "text"), "text"), from), 200), "numeric_follow_up")
    ELSE Declined(st, IF o.db THEN "processFollowUpResponse" ELSE "getActiveAssessments")

\* the gate with the greeting let through to the welcome menu
IdentityGate_greets(st, from, incomingMsgLower, body) ==
    IF st.known \/ incomingMsgLower = HI THEN st
    ELSE IF incomingMsgLower = Command.create_an_account \/ incomingMsgLower = Command.create_account
    THEN Ret(startAccountCreation(Call(st, "startAccountCreation", body), from), "create_account")
    ELSE Ret(Respond(Send(Call(st, "askToCreateAccount", body), "text"), 200), "no_account")

\* PART 6 (lines 555-569): the identity gate; userService.checkUserExists
\* standardizes the sender before the users table is read
IdentityGate(st, from, incomingMsgLower, body) ==
    IF st.known THEN st
    ELSE IF incomingMsgLower = Command.create_an_account \/ incomingMsgLower = Command.create_account
    THEN Ret(startAccountCreation(Call(st, "startAccountCreation", body), from), "create_account")
    ELSE Ret(Respond(Send(Call(st, "askToCreateAccount", body), "text"), 200), "no_account")

\* PART 7 to PART 9 (lines 576-688).  o.done: the information or the
\* report asked for could be produced.
Commands(st, from, incomingMsg, body, o) ==
    LET m == toLowerCase(incomingMsg)
        proxyCommand == parseProxyCommand(incomingMsg)
        run(h, r) == Ret(r, h)
        c(h) == Call(st, h, body)
    IN  IF ~proxyCommand.isNull
        THEN run("proxy", handleProxyCommand(c("handleProxyCommand"), from, proxyCommand, o))
        ELSE IF m = HI \/ m = Command.hello
        THEN run("welcome", showWelcomeMenu(c("showWelcomeMenu"), from))
        ELSE IF m = Command.menu \/ m = Command.main_menu \/ m = Command.back \/ m = <<"7">>
        THEN run("menu", Respond(sendMainMenu(c("sendMainMenu"), from), 200))
        ELSE IF m = Word.symptom
        THEN run("symptom_start", startSymptomAssessment(c("startSymptomAssessment"), from))
        ELSE IF m = Command.check_symptom_status \/ m = Command.symptom_status
        THEN run("symptom_status", showSymptomStatus(c("showSymptomStatus"), from, o))
        ELSE IF m = Command.add_medicine
        THEN run("add_medicine", startAddMedication(c("startAddMedication"), from))
        ELSE IF m = Command.update_medicine
        THEN run("update_medicine", startMedicationUpdate(c("startMedicationUpdate"), from, o))
        ELSE IF m = Command.delete_medicine \/ m = Command.remove_medicine
        THEN run("delete_medicine", startMedicationDeletion(c("startMedicationDeletion"), from, o))
        ELSE IF m = Command.history_week \/ m = Command.history_all
        THEN run("history", showMedicationHistory(c("showMedicationHistory"), from))
        ELSE IF (includes(m, Command.medicine_info) \/ includes(m, Command.medication_info)
                 \/ includes(m, Command.drug_info) \/ includes(m, Command.about_my_medicine)
                 \/ includes(m, Command.tell_me_about) \/ HasPrefix(m, Command.what_is)) /\ o.done
        THEN run("medicine_info", Respond(Send(c("processMedicationInfoRequest"), "text"), 200))
        ELSE IF (includes(m, Command.daily_report) \/ includes(m, Command.checkin_report)
                 \/ includes(m, Command.activity_report) \/ includes(m, Command.how_is_my_parent)
                 \/ includes(m, Command.how_is_my_mom) \/ includes(m, Command.how_is_my_dad)) /\ o.done
        THEN run("report", Respond(Send(c("generateDailyReport"), "text"), 200))
        ELSE run("ai", Respond(Send(c("getAIResponse"), "text"), 200))

(***************************************************************************)
(* The router as a whole                                                   *)
(***************************************************************************)
NoFound == [looked |-> FALSE, user |-> NoUserSession, med |-> NoMedSession,
            acc |-> NoAccSession]

\* the store as one invocation starts on it
StoreOf(acs, us, ms, ci, rem, known, tm) ==
    [acs |-> acs, us |-> us, ms |-> ms, ci |-> ci, rem |-> rem, known |-> known,
     timers |-> tm, calls |-> <<>>, sent |-> <<>>, writes |-> <<>>, status |-> 0,
     threw |-> FALSE, raised |-> FALSE, responses |-> 0, pendingAtCall |-> FALSE,
     declined |-> <<>>, ret |-> FALSE, path |-> "none",
     seen |-> <<>>,
     selected |-> NoTarget, found |-> NoFound, prompt |-> <<>>]

\* the outer catch answering 500 without a message to the user
OuterCatch_silent(st) ==
    IF st.threw THEN Respond([st EXCEPT !.threw = FALSE, !.ret = TRUE], 500)
    ELSE st

\* the outer catch (lines 690-700): what was done stays done
OuterCatch(st) ==
    IF st.threw THEN Respond(Send([st EXCEPT !.threw = FALSE, !.ret = TRUE], "error"), 500)
    ELSE st

\* the next part runs unless the router has returned or thrown
Then(st, Part(_)) == IF st.ret \/ st.threw THEN st ELSE Part(st)

\* router.post('/') (lines 28-701)
Router(st, from, body, o) ==
    LET incomingMsg == trim(body)
        incomingMsgLower == toLowerCase(incomingMsg)
        standardizedFrom == standardizePhoneNumber(from)
        activeCheckIn == getActiveCheckInSession(st.ci)
        Part1(s) == DetectAndAsk(s, from, standardizedFrom, incomingMsg)
        Part2(s) == ReminderReply(s, from, standardizedFrom, incomingMsg,
                                  activeCheckIn, Len(s.seen) > 1, o)
        Part3(s) == ActiveSessions(s, from, standardizedFrom, body, o)
        Part4(s) == CheckInProbe(s, from, incomingMsg, o)
        Part5(s) == NumericProbe(s, from, incomingMsg, o)
        Part6(s) == IdentityGate(s, from, incomingMsgLower, body)
        Part7(s) == Commands(s, from, incomingMsg, body, o)
    IN  OuterCatch(
            Then(Then(Then(Then(Then(Then(Then(
                PendingDisambiguation(st, from, standardizedFrom, incomingMsg, o),
                Part1), Part2), Part3), Part4), Part5), Part6), Part7))

(***************************************************************************)
(* Inputs                                                                  *)
(***************************************************************************)
Senders == {Raw, Std}

\* message texts: replies to reminders, option indexes valid and not, free
\* text, a command word and a caregiver's proxy command
Bodies ==
    {YES, <<"Y", "e", "s", " ">>, NO, Txt1, Txt2, Txt3, <<"9">>, <<"a", "b", "c">>,
     <<"1", "a", "b", "c">>, HI, Command.create_account,
     Command.for \o <<"9", " ">> \o Command.add_medicine}

\* what the services outside the router answer during one invocation
Smooth == [ok |-> TRUE, done |-> TRUE, db |-> TRUE, race |-> FALSE]

\* every service answers as hoped, or exactly one of them does not
Outcomes == {Smooth, [Smooth EXCEPT !.ok = FALSE], [Smooth EXCEPT !.done = FALSE],
             [Smooth EXCEPT !.db = FALSE], [Smooth EXCEPT !.race = TRUE]}

(***************************************************************************)
(* The record of the last operation                                        *)
(***************************************************************************)
Absent(none) == [k \in Keys |-> none]

Idle ==
    [op |-> "none", from |-> <<>>, body |-> <<>>,
     path |-> "none", calls |-> <<>>, sent |-> <<>>, writes |-> <<>>, status |-> 0,
     seen |-> <<>>, selected |-> NoTarget, found |-> NoFound, prompt |-> <<>>,
     raised |-> FALSE, responses |-> 0, pendingAtCall |-> FALSE, declined |-> <<>>]

LogOf(from, body, st) ==
    [op |-> "webhook", from |-> from, body |-> body,
     path |-> st.path, calls |-> st.calls, sent |-> st.sent, writes |-> st.writes,
     status |-> st.status, seen |-> st.seen, selected |-> st.selected,
     found |-> st.found, prompt |-> st.prompt, raised |-> st.raised,
     responses |-> st.responses, pendingAtCall |-> st.pendingAtCall,
     declined |-> st.declined]

(***************************************************************************)
(* Actions.  A POST is answered before the next operation on this user's   *)
(* state starts: last holds the invocation until its response is out.      *)
(***************************************************************************)
FunIdle == arg = <<>> /\ result = <<>> /\ applied = 0

\* no invocation is being answered, and the explored conversation has
\* messages left
Quiet == last.op = "none" /\ received < MaxMessages

\* the session maps are empty when the process starts; the users table
\* outlives the process
Init ==
    /\ accountCreationSessions = Absent(NoAccSession)
    /\ userSessions = Absent(NoUserSession)
    /\ medicationSessions = Absent(NoMedSession)
    /\ activeCheckInSessions = NoCheckIn
    /\ reminders = NoReminder
    /\ knownUser \in BOOLEAN
    /\ timers = [k \in Keys |-> 0]
    /\ received = 0
    /\ last = Idle
    /\ FunIdle

Commit(st, from, body) ==
    /\ accountCreationSessions' = st.acs
    /\ userSessions' = st.us
    /\ medicationSessions' = st.ms
    /\ activeCheckInSessions' = st.ci
    /\ reminders' = st.rem
    /\ knownUser' = st.known
    /\ timers' = st.timers
    /\ last' = LogOf(from, body, st)

\* one POST to the webhook, from its first line to the response
Webhook(from, body, o) ==
    /\ Quiet
    /\ received' = received + 1
    /\ Commit(Router(StoreOf(accountCreationSessions, userSessions, medicationSessions,
                             activeCheckInSessions, reminders, knownUser, timers),
                     from, body, o),
              from, body)
    /\ UNCHANGED funVars

\* res.status(...).send(...) has gone out
ResponseSent ==
    /\ last.op = "webhook"
    /\ received < MaxMessages
    /\ last' = Idle
    /\ UNCHANGED <<accountCreationSessions, userSessions, medicationSessions,
                   activeCheckInSessions, reminders, knownUser, timers, received, funVars>>

\* userService's reminder scan: a due medication gets a reminder row and
\* the reminder message
SendReminder ==
    /\ Quiet
    /\ knownUser
    /\ reminders' = Reminder("Aspirin", FALSE, "sent")
    /\ UNCHANGED <<accountCreationSessions, userSessions, medicationSessions,
                   activeCheckInSessions, knownUser, timers, received, last, funVars>>

\* the row leaves the 60 minute window of getLatestReminder
ReminderExpires ==
    /\ Quiet
    /\ reminders.present
    /\ reminders' = NoReminder
    /\ UNCHANGED <<accountCreationSessions, userSessions, medicationSessions,
                   activeCheckInSessions, knownUser, timers, received, last, funVars>>

\* checkInService.executeScheduledCheckIn, for this user
ExecuteScheduledCheckIn ==
    /\ Quiet
    /\ knownUser
    /\ activeCheckInSessions' = CheckIn("initial")
    /\ UNCHANGED <<accountCreationSessions, userSessions, medicationSessions,
                   reminders, knownUser, timers, received, last, funVars>>

\* followUpService.sendSymptomFollowUp(userPhone), userPhone read from the
\* assessments table
SendSymptomFollowUp(userPhone) ==
    /\ Quiet
    /\ knownUser
    /\ userSessions' =
           [k \in Keys |-> IF k \in {standardizePhoneNumber(userPhone), userPhone}
                           THEN Plain("follow_up", "status") ELSE userSessions[k]]
    /\ UNCHANGED <<accountCreationSessions, medicationSessions, activeCheckInSessions,
                   reminders, knownUser, timers, received, last, funVars>>

\* a setTimeout(() => menuHandler.sendMainMenu(from)) callback runs
TimerSendMainMenu(key) ==
    /\ Quiet
    /\ timers[key] > 0
    /\ timers' = [timers EXCEPT ![key] = @ - 1]
    /\ userSessions' = [userSessions EXCEPT ![key] = Plain("undefined", "main_menu")]
    /\ UNCHANGED <<accountCreationSessions, medicationSessions, activeCheckInSessions,
                   reminders, knownUser, received, last, funVars>>

\* a caregiver's account wizard creates this user's record
\* (accountHandler, stage parent_details)
CaregiverCreatesUser ==
    /\ Quiet
    /\ ~knownUser
    /\ knownUser' = TRUE
    /\ UNCHANGED <<accountCreationSessions, userSessions, medicationSessions,
                   activeCheckInSessions, reminders, timers, received, last, funVars>>

\* sessionStore.cleanupExpiredSessions: every entry older than 30 minutes
\* goes; which entries are that old is the environment's choice
cleanupExpiredSessions(oldAcc, oldUser, oldMed) ==
    /\ Quiet
    /\ oldAcc \cup oldUser \cup oldMed # {}
    /\ \A k \in oldAcc : accountCreationSessions[k].present
    /\ \A k \in oldUser : userSessions[k].type # "absent"
    /\ \A k \in oldMed : medicationSessions[k].present
    /\ accountCreationSessions' =
           [k \in Keys |-> IF k \in oldAcc THEN NoAccSession ELSE accountCreationSessions[k]]
    /\ userSessions' = [k \in Keys |-> IF k \in oldUser THEN NoUserSession ELSE userSessions[k]]
    /\ medicationSessions' =
           [k \in Keys |-> IF k \in oldMed THEN NoMedSession ELSE medicationSessions[k]]
    /\ UNCHANGED <<activeCheckInSessions, reminders, knownUser, timers, received, last, funVars>>

Next ==
    \/ \E from \in Senders, body \in Bodies, o \in Outcomes : Webhook(from, body, o)
    \/ ResponseSent
    \/ SendReminder
    \/ ReminderExpires
    \/ ExecuteScheduledCheckIn
    \/ SendSymptomFollowUp(Std)
    \/ \E key \in Keys : TimerSendMainMenu(key)
    \/ CaregiverCreatesUser
    \/ \E oldAcc \in SUBSET Keys, oldUser \in SUBSET Keys, oldMed \in SUBSET Keys :
           cleanupExpiredSessions(oldAcc, oldUser, oldMed)

Spec == Init /\ [][Next]_vars

(***************************************************************************)
(* The normalizer on its own: every identity string of up to MaxIdLen      *)
(* tokens is normalized once and then once more.                           *)
(***************************************************************************)
StoreIdle ==
    /\ accountCreationSessions = Absent(NoAccSession)
    /\ userSessions = Absent(NoUserSession)
    /\ medicationSessions = Absent(NoMedSession)
    /\ activeCheckInSessions = NoCheckIn
    /\ reminders = NoReminder
    /\ knownUser = FALSE
    /\ timers = [k \in Keys |-> 0]
    /\ received = 0
    /\ last = Idle

IdStrings == UNION {[1..n -> {WA, "+91", "+92"}] : n \in 0..MaxIdLen}

InitNormalize ==
    /\ StoreIdle
    /\ arg \in IdStrings
    /\ result = <<>>
    /\ applied = 0

\* result holds normalize(arg) and then normalize(normalize(arg))
Normalize ==
    /\ applied < 2
    /\ result' = Append(result, standardizePhoneNumber(IF applied = 0 THEN arg
                                                       ELSE result[applied]))
    /\ applied' = applied + 1
    /\ UNCHANGED <<arg, storeVars>>

SpecNormalize == InitNormalize /\ [][Normalize]_vars

(***************************************************************************)
(* The detector on its own: every combination of the five sources, stored  *)
(* under the standardized key, read for either form of the sender.         *)
(***************************************************************************)
Under(key, session, none) == [k \in Keys |-> IF k = key THEN session ELSE none]

InitDetect ==
    /\ \E a \in {NoAccSession, AccSess("account_type"), AccSess("self_name"),
                  AccSess("parent_count")} :
          accountCreationSessions = Under(Std, a, NoAccSession)
    /\ \E u \in {NoUserSession, Plain("symptom", "primary"), Plain("follow_up", "status"),
                  Plain("undefined", "main_menu"), Plain("undefined", "medication_menu"),
                  Plain("undefined", "medication_info_selection"),
                  UserSess("disambiguation", "general", <<>>, HI, "undefined")} :
          userSessions = Under(Std, u, NoUserSession)
    /\ \E m \in {NoMedSession, MedSess(Stage1), MedSess(UpdateStage("start")),
                  MedSess(DeleteStage("select"))} :
          medicationSessions = Under(Std, m, NoMedSession)
    /\ activeCheckInSessions \in {NoCheckIn, CheckIn("initial")}
    /\ reminders \in {NoReminder, Reminder("Aspirin", FALSE, "sent"),
                      Reminder("Aspirin", TRUE, "taken")}
    /\ knownUser = TRUE
    /\ timers = [k \in Keys |-> 0]
    /\ received = 0
    /\ last = Idle
    /\ FunIdle

Detect(userPhone) ==
    /\ applied = 0
    /\ arg' = userPhone
    /\ result' = detectConversationConflicts(
                     userPhone,
                     StoreOf(accountCreationSessions, userSessions, medicationSessions,
                             activeCheckInSessions, reminders, knownUser, timers),
                     activeCheckInSessions)
    /\ applied' = 1
    /\ UNCHANGED storeVars

NextDetect == \E userPhone \in Senders : Detect(userPhone)

SpecDetect == InitDetect /\ [][NextDetect]_vars

(***************************************************************************)
(* The resolver and the prompt on their own: every priority-sorted list of *)
(* conversations of distinct kinds, with a few message texts.              *)
(***************************************************************************)
KindOrder == <<"account_creation", "symptom_assessment", "menu_navigation", "general_query",
               "medication_management", "check_in_response", "medication_reminder",
               "symptom_emergency">>

\* the record the detector pushes for a kind (symptom_emergency has no push
\* in the detector; its record follows the same shape)
SampleConv(kind) ==
    CASE kind = "account_creation"      -> Conv(kind, "Account creation", <<"account_type">>)
      [] kind = "symptom_assessment"    -> UserSessionConv(Plain("symptom", "primary"))
      [] kind = "menu_navigation"       -> UserSessionConv(Plain("undefined", "main_menu"))
      [] kind = "general_query"         -> UserSessionConv(Plain("undefined", "other"))
      [] kind = "medication_management" -> Conv(kind, "Medication management", Stage1)
      [] kind = "check_in_response"     -> Conv(kind, "Check-in", <<"initial">>)
      [] kind = "medication_reminder"   -> Conv(kind, "Medication reminder", <<"Aspirin">>)
      [] kind = "symptom_emergency"     -> Conv(kind, "Symptom emergency", <<>>)

Conversations(kinds) ==
    LET Chosen(k) == k \in kinds
        chosen == SelectSeq(KindOrder, Chosen)
    IN  SortByPriority([i \in 1..Len(chosen) |-> SampleConv(chosen[i])])

InitResolve ==
    /\ StoreIdle
    /\ \E kinds \in SUBSET Kinds,
          text \in {YES, <<"Y", "e", "s", " ">>, Txt1, <<" ", "2", "3">>, <<"a", "b", "c">>,
                    <<"1", "a", "b", "c">>} :
          arg = [text |-> text, conflictInfo |-> ConflictInfo(Conversations(kinds))]
    /\ result = <<>>
    /\ applied = 0

Resolve ==
    /\ applied = 0
    /\ result' = [resolution |-> handleDisambiguation(arg.text, arg.conflictInfo),
                  prompt |-> <<>>]
    /\ applied' = 1
    /\ UNCHANGED <<arg, storeVars>>

Prompt ==
    /\ applied = 1
    /\ result.resolution.needsDisambiguation
    /\ result' = [result EXCEPT !.prompt = generateDisambiguationMessage(result.resolution)]
    /\ applied' = 2
    /\ UNCHANGED <<arg, storeVars>>

NextResolve == Resolve \/ Prompt

SpecResolve == InitResolve /\ [][NextResolve]_vars

(***************************************************************************)
(* The expiry sweep on its own, with time.  The clock counts minutes and   *)
(* advances a quarter of an hour at a time; Date.now() is positive.  A     *)
(* session entry carries its timestamp field (0: the field is missing) and *)
(* written, the time of the last write, which the program does not keep.   *)
(* arg is [now, sessions]; result is the store the last sweep started on.  *)
(***************************************************************************)
\* const EXPIRY_TIME = 30 * 60 * 1000, in minutes
EXPIRY_TIME == 30

\* the period of the sweep's setInterval, 15 * 60 * 1000, in minutes
SweepPeriod == 15

\* the clock stops after this many quarters of an hour
MaxClock == 4

SessionMaps == {"accountCreationSessions", "userSessions", "medicationSessions"}

Entry(stage, timestamp, written) ==
    [present |-> TRUE, stage |-> stage, timestamp |-> timestamp, written |-> written]
NoEntry == [present |-> FALSE, stage |-> "undefined", timestamp |-> 0, written |-> 0]

\* the first forEach of each map: a missing timestamp becomes now
Stamp(entry, now) ==
    IF entry.present /\ entry.timestamp = 0 THEN [entry EXCEPT !.timestamp = now] ELSE entry

\* the second forEach of each map: an entry older than EXPIRY_TIME goes
Expire(entry, now) ==
    IF entry.present /\ now - entry.timestamp > EXPIRY_TIME THEN NoEntry ELSE entry

\* sessionStore.cleanupExpiredSessions at the time now
SweepAt(sessions, now) == [m \in SessionMaps |-> Expire(Stamp(sessions[m], now), now)]

InitSweep ==
    /\ StoreIdle
    /\ arg = [now |-> SweepPeriod, sessions |-> [m \in SessionMaps |-> NoEntry]]
    /\ result = <<>>
    /\ applied = 0

Tick ==
    /\ arg.now < MaxClock * SweepPeriod
    /\ arg' = [arg EXCEPT !.now = @ + SweepPeriod]
    /\ applied' = 0
    /\ UNCHANGED <<result, storeVars>>

\* sessionStore.set...Session: { ...sessionData, timestamp: Date.now() }
SetSession(m, stage) ==
    /\ arg' = [arg EXCEPT !.sessions[m] = Entry(stage, arg.now, arg.now)]
    /\ applied' = 0
    /\ UNCHANGED <<result, storeVars>>

\* processProxyMessage: sessionStore.medicationSessions[...] = { stage: 1, ... }
DirectWrite ==
    /\ arg' = [arg EXCEPT !.sessions["medicationSessions"] = Entry("1", 0, arg.now)]
    /\ applied' = 0
    /\ UNCHANGED <<result, storeVars>>

\* sessionStore.delete...Session
DeleteSession(m) ==
    /\ arg.sessions[m].present
    /\ arg' = [arg EXCEPT !.sessions[m] = NoEntry]
    /\ applied' = 0
    /\ UNCHANGED <<result, storeVars>>

Sweep ==
    /\ result' = [at |-> arg.now, before |-> arg.sessions]
    /\ arg' = [arg EXCEPT !.sessions = SweepAt(arg.sessions, arg.now)]
    /\ applied' = 1
    /\ UNCHANGED storeVars

NextSweep ==
    \/ Tick
    \/ \E m \in SessionMaps, stage \in {"1", "2"} : SetSession(m, stage)
    \/ DirectWrite
    \/ \E m \in SessionMaps : DeleteSession(m)
    \/ Sweep

SpecSweep == InitSweep /\ [][NextSweep]_vars

(***************************************************************************)
(* Overlapping invocations on one user's general session.  A handler runs  *)
(* to its first await without interruption; while it awaits, another       *)
(* invocation of the router or the sweep may run.  The map holds            *)
(* references: getUserSession returns the stored object itself, a handler  *)
(* changes it in place, setUserSession stores a fresh copy.  arg is         *)
(*   heap   the session objects created so far                             *)
(*   entry  userSessions[from]: an index into heap, 0 if absent            *)
(*   epoch  the number of deletions of a present entry so far              *)
(*   pc, held  per invocation: where it is, and the object it holds        *)
(* born, the epoch in which a session was started, is history only.        *)
(***************************************************************************)
MaxOverlap == 3
MaxSweeps == 1

Invocations == 1..MaxOverlap

SymptomSession(stage, questionNumber, born) == [stage |-> stage, questionNumber |-> questionNumber, born |-> born]

\* setUserSession(from, sessionData): a copy of sessionData becomes the entry
StoreCopy(a, sessionData) == [a EXCEPT !.heap = Append(@, sessionData), !.entry = Len(a.heap) + 1]

\* deleteUserSession(from)
DropEntry(a) == [a EXCEPT !.entry = 0, !.epoch = IF a.entry # 0 THEN @ + 1 ELSE @]

At(a, i, pc) == [a EXCEPT !.pc[i] = pc]

InitOverlap ==
    /\ StoreIdle
    /\ arg = [heap |-> <<>>, entry |-> 0, epoch |-> 0, sweeps |-> 0,
              pc |-> [i \in Invocations |-> "idle"], held |-> [i \in Invocations |-> 0]]
    /\ result = <<>>
    /\ applied = 0

\* startSymptomAssessment, up to its await of the send
StartAssessment(i) ==
    /\ arg.pc[i] = "idle"
    /\ arg' = At(StoreCopy(arg, SymptomSession("primary", 0, arg.epoch)), i, "done")
    /\ UNCHANGED <<storeVars, result, applied>>

\* continueSymptomAssessment from its read of the session to its await of
\* getNextQuestion: without a session it starts the assessment again, else
\* it changes the object it read in place
ContinueReads(i) ==
    /\ arg.pc[i] = "idle"
    /\ arg' = IF arg.entry = 0
              THEN At(StoreCopy(arg, SymptomSession("primary", 0, arg.epoch)), i, "done")
              ELSE IF arg.heap[arg.entry].stage = "primary"
              THEN [arg EXCEPT !.heap[arg.entry].stage = "follow_up",
                               !.heap[arg.entry].questionNumber = 1,
                               !.held[i] = arg.entry, !.pc[i] = "first_question"]
              ELSE [arg EXCEPT !.heap[arg.entry].questionNumber = @ + 1,
                               !.held[i] = arg.entry, !.pc[i] = "next_question"]
    /\ UNCHANGED <<storeVars, result, applied>>

\* getNextQuestion has answered: the object held is stored again, or, when
\* the answer is the final assessment, the entry is deleted
ContinueWritesBack(i, isAssessment) ==
    /\ arg.pc[i] \in {"first_question", "next_question"}
    /\ arg' = IF arg.pc[i] = "next_question" /\ isAssessment
              THEN At(DropEntry(arg), i, "done")
              ELSE At(StoreCopy(arg, arg.heap[arg.held[i]]), i, "done")
    /\ UNCHANGED <<storeVars, result, applied>>

\* the router's PART 2 on a reminder reply: both deletes, then the handler
RouterClears(i) ==
    /\ arg.pc[i] = "idle"
    /\ arg' = At(DropEntry(arg), i, "done")
    /\ UNCHANGED <<storeVars, result, applied>>

\* cleanupExpiredSessions finds the entry older than EXPIRY_TIME
SweepExpires ==
    /\ arg.entry # 0
    /\ arg.sweeps < MaxSweeps
    /\ arg' = [DropEntry(arg) EXCEPT !.sweeps = @ + 1]
    /\ UNCHANGED <<storeVars, result, applied>>

NextOverlap ==
    \/ \E i \in Invocations : StartAssessment(i)
    \/ \E i \in Invocations : ContinueReads(i)
    \/ \E i \in Invocations, isAssessment \in BOOLEAN : ContinueWritesBack(i, isAssessment)
    \/ \E i \in Invocations : RouterClears(i)
    \/ SweepExpires

SpecOverlap == InitOverlap /\ [][NextOverlap]_vars

(***************************************************************************)
(* The session store on its own: three maps from key to entry, and a       *)
(* clock for Date.now().  arg is [now, maps]; result is the last call made *)
(* on the store.                                                           *)
(***************************************************************************)
\* the clock of the store stops after this many ticks
MaxStoreClock == 2

\* session data as the callers pass it: fields may be missing, and the
\* router's own disambiguation record carries a timestamp of its own
SessionData == {[stage |-> "1", data |-> "undefined", timestamp |-> 0],
                [stage |-> "2", data |-> "x", timestamp |-> 0],
                [stage |-> "general", data |-> "undefined", timestamp |-> 1]}

NoStored == [present |-> FALSE, stage |-> "undefined", data |-> "undefined", timestamp |-> 0]

\* Object.assign on the entry already stored: fields the new data lacks
\* survive
SetEntry_merge(maps, m, phoneNumber, sessionData, now) ==
    [maps EXCEPT ![m][phoneNumber] =
        [present |-> TRUE, stage |-> sessionData.stage,
         data |-> IF sessionData.data = "undefined" THEN @.data ELSE sessionData.data,
         timestamp |-> now]]

\* set...Session: this.<map>[phoneNumber] = { ...sessionData, timestamp: Date.now() }
SetEntry(maps, m, phoneNumber, sessionData, now) ==
    [maps EXCEPT ![m][phoneNumber] =
        [present |-> TRUE, stage |-> sessionData.stage, data |-> sessionData.data,
         timestamp |-> now]]

\* delete...Session: delete this.<map>[phoneNumber]
DeleteEntry(maps, m, phoneNumber) == [maps EXCEPT ![m][phoneNumber] = NoStored]

InitStore ==
    /\ StoreIdle
    /\ arg = [now |-> 1, maps |-> [m \in SessionMaps |-> [k \in Keys |-> NoStored]]]
    /\ result = [op |-> "none"]
    /\ applied = 0

StoreTick ==
    /\ arg.now < MaxStoreClock
    /\ arg' = [arg EXCEPT !.now = @ + 1]
    /\ result' = [op |-> "none"]
    /\ applied' = 0
    /\ UNCHANGED storeVars

StoreSet(m, phoneNumber, sessionData) ==
    /\ arg' = [arg EXCEPT !.maps = SetEntry(@, m, phoneNumber, sessionData, arg.now)]
    /\ result' = [op |-> "set", map |-> m, key |-> phoneNumber, data |-> sessionData]
    /\ applied' = 1
    /\ UNCHANGED storeVars

StoreDelete(m, phoneNumber) ==
    /\ arg' = [arg EXCEPT !.maps = DeleteEntry(@, m, phoneNumber)]
    /\ result' = [op |-> "delete", map |-> m, key |-> phoneNumber]
    /\ applied' = 1
    /\ UNCHANGED storeVars

NextStore ==
    \/ StoreTick
    \/ \E m \in SessionMaps, k \in Keys, d \in SessionData : StoreSet(m, k, d)
    \/ \E m \in SessionMaps, k \in Keys : StoreDelete(m, k)

SpecStore == InitStore /\ [][NextStore]_vars

(***************************************************************************)
(* splitMessageIntoChunks, one iteration of its while loop per step.       *)
(* Indexes are JavaScript's: they start at 0, and -1 means not found.      *)
(* arg is [message, maxLength]; result is [chunks, remainingMessage,       *)
(* returned].                                                              *)
(***************************************************************************)
\* length of the longest message text
MaxText == 5
\* largest maxLength
MaxChunk == 3

NL == "\n"
ChunkChars == {"a", " ", ".", "!", NL}

WhiteSpace == {" ", NL}

RECURSIVE TrimStartWs(_)
TrimStartWs(s) == IF s # <<>> /\ Head(s) \in WhiteSpace THEN TrimStartWs(Tail(s)) ELSE s

RECURSIVE TrimEndWs(_)
TrimEndWs(s) ==
    IF s # <<>> /\ s[Len(s)] \in WhiteSpace THEN TrimEndWs(SubSeq(s, 1, Len(s) - 1)) ELSE s

\* String.prototype.trim on a text with line breaks
trimText(s) == TrimEndWs(TrimStartWs(s))

Max2(a, b) == IF a >= b THEN a ELSE b

\* s.substring(start, end) and s.substring(start)
substring(s, start, end) == SubSeq(s, start + 1, Min(end, Len(s)))
substringFrom(s, start) == SubSeq(s, start + 1, Len(s))

\* s.lastIndexOf(searchValue, fromIndex): the last start of a match at or
\* before fromIndex
lastIndexOf(s, searchValue, fromIndex) ==
    LET starts == {i \in 0..Min(fromIndex, Len(s) - Len(searchValue)) :
                       SubSeq(s, i + 1, i + Len(searchValue)) = searchValue}
    IN  IF starts = {} THEN -1 ELSE CHOOSE i \in starts : \A j \in starts : j <= i

\* lines 43-71: where the next chunk ends; b > maxLength / 2 is 2 * b > maxLength
SplitIndexOf(remainingMessage, maxLength) ==
    LET paragraphBreak == lastIndexOf(remainingMessage, <<NL, NL>>, maxLength)
        lineBreak == lastIndexOf(remainingMessage, <<NL>>, maxLength)
        sentenceBreak == Max2(lastIndexOf(remainingMessage, <<".", " ">>, maxLength),
                              Max2(lastIndexOf(remainingMessage, <<"!", " ">>, maxLength),
                                   lastIndexOf(remainingMessage, <<"?", " ">>, maxLength)))
        spaceBreak == lastIndexOf(remainingMessage, <<" ">>, maxLength)
    IN  IF Len(remainingMessage) <= maxLength THEN maxLength
        ELSE IF 2 * paragraphBreak > maxLength THEN paragraphBreak + 2
        ELSE IF 2 * lineBreak > maxLength THEN lineBreak + 1
        ELSE IF 2 * sentenceBreak > maxLength THEN sentenceBreak + 2
        ELSE IF 2 * spaceBreak > maxLength THEN spaceBreak + 1
        ELSE maxLength

RECURSIVE TextsUpTo(_)
TextsUpTo(n) ==
    IF n = 0 THEN {<<>>}
    ELSE LET shorter == TextsUpTo(n - 1)
         IN  shorter \cup {Append(t, c) : t \in {u \in shorter : Len(u) = n - 1}, c \in ChunkChars}

InitChunks ==
    /\ StoreIdle
    /\ \E message \in TextsUpTo(MaxText), maxLength \in 0..MaxChunk :
           /\ arg = [message |-> message, maxLength |-> maxLength]
           /\ result = [chunks |-> <<>>, remainingMessage |-> message, returned |-> FALSE]
    /\ applied = 0

\* lines 32-34: a message that is short enough is returned as it is
ReturnWhole ==
    /\ applied = 0
    /\ Len(arg.message) <= arg.maxLength
    /\ result' = [result EXCEPT !.chunks = <<arg.message>>, !.returned = TRUE]
    /\ applied' = 1
    /\ UNCHANGED <<arg, storeVars>>

\* lines 39-81: one turn of the loop; the turns explored are as many as
\* the message has characters, and one more
NextChunk ==
    /\ ~result.returned
    /\ Len(arg.message) > arg.maxLength
    /\ Len(result.remainingMessage) > 0
    /\ applied <= Len(arg.message)
    /\ LET splitIndex == SplitIndexOf(result.remainingMessage, arg.maxLength)
       IN  result' = [result EXCEPT
                          !.chunks = Append(@, trimText(substring(result.remainingMessage, 0, splitIndex))),
                          !.remainingMessage = trimText(substringFrom(result.remainingMessage, splitIndex))]
    /\ applied' = applied + 1
    /\ UNCHANGED <<arg, storeVars>>

\* line 83: the loop has ended
ReturnChunks ==
    /\ ~result.returned
    /\ Len(arg.message) > arg.maxLength
    /\ Len(result.remainingMessage) = 0
    /\ result' = [result EXCEPT !.returned = TRUE]
    /\ applied' = applied + 1
    /\ UNCHANGED <<arg, storeVars>>

NextChunks == ReturnWhole \/ NextChunk \/ ReturnChunks

SpecChunks == InitChunks /\ [][NextChunks]_vars

(***************************************************************************)
(* Overlapping answers to one pending disambiguation.  An invocation       *)
(* awaits UserModel.updateLastInteraction (lines 39-44) before it reads    *)
(* the session; from the read of line 50 to the deletes of lines 68-69,    *)
(* 100-101 and 163-164 there is no await, so that stretch runs without     *)
(* interruption.  arg is                                                   *)
(*   us          userSessions                                              *)
(*   pc, from, body   per invocation: where it is, its sender, its text    *)
(*   replayed    the invocations that re-dispatched the original message   *)
(*   overlapped  two invocations were awaiting at the same time            *)
(***************************************************************************)
MaxChoosers == 2

Choosers == 1..MaxChoosers

ChoiceTexts == {Txt1, Txt2, <<"9">>}

\* the question as the router stored it for the sender that was asked
PendingQuestion(stage) ==
    UserSess("disambiguation", stage,
             IF stage = "general"
             THEN <<Conv("medication_reminder", "Medication reminder", <<"Aspirin">>),
                    Conv("check_in_response", "Check-in", <<"initial">>)>>
             ELSE <<>>,
             YES, "undefined")

InitChoices ==
    /\ StoreIdle
    /\ \E asked \in Senders, stage \in {"reminder_vs_checkin", "general"} :
           arg = [us |-> StoreDisambiguation([us |-> Absent(NoUserSession)], asked,
                                             standardizePhoneNumber(asked),
                                             PendingQuestion(stage)).us,
                  pc |-> [i \in Choosers |-> "idle"],
                  from |-> [i \in Choosers |-> <<>>],
                  body |-> [i \in Choosers |-> <<>>],
                  replayed |-> {},
                  overlapped |-> FALSE]
    /\ result = <<>>
    /\ applied = 0

\* lines 28-44: the POST arrives and awaits the interaction timestamp
ChoiceArrives(i, from, body) ==
    /\ arg.pc[i] = "idle"
    /\ arg' = [arg EXCEPT !.pc[i] = "awaiting", !.from[i] = from, !.body[i] = body,
                          !.overlapped = @ \/ \E j \in Choosers : arg.pc[j] = "awaiting"]
    /\ UNCHANGED <<storeVars, result, applied>>

\* a valid answer to the question of the session read
IsValidChoice(userSession, incomingMsg) ==
    IF userSession.stage = "reminder_vs_checkin" THEN incomingMsg \in {Txt1, Txt2}
    ELSE ValidIndex(incomingMsg, Len(userSession.options))

\* lines 50-69, 95-101, 146-164: the read, the test of the answer and the
\* two deletes, then the re-dispatch of the original message
ChoiceDecides(i) ==
    /\ arg.pc[i] = "awaiting"
    /\ LET from == arg.from[i]
           standardizedFrom == standardizePhoneNumber(from)
           userSession == OrUser(getUserSession(arg.us, from),
                                 getUserSession(arg.us, standardizedFrom))
       IN  arg' = IF userSession.type = "disambiguation"
                     /\ IsValidChoice(userSession, trim(arg.body[i]))
                  THEN [arg EXCEPT !.us = ClearBoth([us |-> arg.us], from, standardizedFrom).us,
                                   !.replayed = @ \cup {i}, !.pc[i] = "done"]
                  ELSE [arg EXCEPT !.pc[i] = "done"]
    /\ UNCHANGED <<storeVars, result, applied>>

NextChoices ==
    \/ \E i \in Choosers, from \in Senders, body \in ChoiceTexts : ChoiceArrives(i, from, body)
    \/ \E i \in Choosers : ChoiceDecides(i)

SpecChoices == InitChoices /\ [][NextChoices]_vars

(***************************************************************************)
(* The delayed main-menu send and the sessions created while it waits.     *)
(* A handler that finishes a dialog calls setTimeout(() =>                 *)
(* sendMainMenu(from), ...) and returns; until the callback runs, other    *)
(* invocations and the follow-up service may store sessions.  arg is       *)
(*   us       userSessions                                                 *)
(*   pending  key -> a sendMainMenu callback is waiting                    *)
(*   since    key -> the entry under the key was written after the handler *)
(*            that set the timer returned (history only)                   *)
(* result is what the last callback found under its key.                   *)
(***************************************************************************)
\* a store record with the general sessions us and nothing else
OnlyUserSessions(us) ==
    StoreOf(Absent(NoAccSession), us, Absent(NoMedSession), NoCheckIn, NoReminder, TRUE,
            [k \in Keys |-> 0])

\* the keys whose entry differs between two session maps
Written(before, after) == {k \in Keys : after[k] # before[k]}

AfterWrite(a, us) ==
    [a EXCEPT !.us = us,
              !.since = [k \in Keys |-> IF k \in Written(a.us, us) THEN a.pending[k] ELSE @[k]]]

InitTimer ==
    /\ StoreIdle
    /\ arg = [us |-> Absent(NoUserSession), pending |-> [k \in Keys |-> FALSE],
              since |-> [k \in Keys |-> FALSE]]
    /\ result = [fired |-> FALSE]
    /\ applied = 0

\* handleMedicationInfoSelection, lines 36-42: the information is sent, the
\* timer is set, the handler returns
HandlerSetsTimer(from) ==
    /\ ~arg.pending[from]
    /\ arg' = [arg EXCEPT !.pending[from] = TRUE, !.since[from] = FALSE]
    /\ UNCHANGED <<storeVars, result, applied>>

\* a later message starts a symptom assessment
LaterStartsAssessment(from) ==
    /\ arg' = AfterWrite(arg, startSymptomAssessment(OnlyUserSessions(arg.us), from).us)
    /\ UNCHANGED <<storeVars, result, applied>>

\* the follow-up service opens a follow-up for the user
LaterFollowUp(userPhone) ==
    /\ arg' = AfterWrite(arg, [k \in Keys |->
                                  IF k \in {standardizePhoneNumber(userPhone), userPhone}
                                  THEN Plain("follow_up", "status") ELSE arg.us[k]])
    /\ UNCHANGED <<storeVars, result, applied>>

\* a later message meets a conflict and the router stores its question
LaterAsks(from) ==
    /\ arg' = AfterWrite(arg, StoreDisambiguation(OnlyUserSessions(arg.us), from,
                                                  standardizePhoneNumber(from),
                                                  PendingQuestion("general")).us)
    /\ UNCHANGED <<storeVars, result, applied>>

\* a later choice or the end of a dialog removes the entry
LaterDeletes(from) ==
    /\ arg.us[from] # NoUserSession
    /\ arg' = AfterWrite(arg, deleteUserSession(OnlyUserSessions(arg.us), from).us)
    /\ UNCHANGED <<storeVars, result, applied>>

\* the callback runs: sendMainMenu(from)
TimerFires(key) ==
    /\ arg.pending[key]
    /\ result' = [fired |-> TRUE, key |-> key, found |-> arg.us[key], since |-> arg.since[key]]
    /\ arg' = [arg EXCEPT !.us = sendMainMenu(OnlyUserSessions(arg.us), key).us,
                          !.pending[key] = FALSE, !.since[key] = FALSE]
    /\ UNCHANGED <<storeVars, applied>>

NextTimer ==
    \/ \E from \in Senders : HandlerSetsTimer(from)
    \/ \E from \in Senders : LaterStartsAssessment(from)
    \/ \E userPhone \in Senders : LaterFollowUp(userPhone)
    \/ \E from \in Senders : LaterAsks(from)
    \/ \E from \in Senders : LaterDeletes(from)
    \/ \E key \in Keys : TimerFires(key)

SpecTimer == InitTimer /\ [][NextTimer]_vars

(***************************************************************************)
(* Overlapping "yes" replies to one reminder.  Every read and write of the *)
(* reminders and medications tables is awaited, so another invocation may  *)
(* run between any two of them.  arg is                                    *)
(*   rem       the reminder row                                            *)
(*   takenCount  the takenCount of the medication's row                    *)
(*   pc, read  per invocation: where it is, and the takenCount it read     *)
(*   recorded  the invocations whose update of the medication row ran      *)
(*   overlapped  two invocations were under way at the same time           *)
(***************************************************************************)
MaxTakers == 3

Takers == 1..MaxTakers

UnderWay(pc) == pc \notin {"idle", "done"}

InitTaken ==
    /\ StoreIdle
    /\ arg = [rem |-> Reminder("Aspirin", FALSE, "sent"), takenCount |-> 0,
              pc |-> [i \in Takers |-> "idle"], read |-> [i \in Takers |-> 0],
              recorded |-> {}, overlapped |-> FALSE]
    /\ result = <<>>
    /\ applied = 0

\* the router's PART 2 (part_006 lines 319-384): its own read of the
\* latest reminder, then the taken handler
RouterFindsReminder(i) ==
    /\ arg.pc[i] = "idle"
    /\ arg' = [arg EXCEPT
                   !.pc[i] = IF getLatestReminder(arg.rem).present THEN "handler" ELSE "done",
                   !.overlapped = @ \/ \E j \in Takers : UnderWay(arg.pc[j])]
    /\ UNCHANGED <<storeVars, result, applied>>

\* handleMedicationTaken, lines 384-387: the handler's read of the reminder
HandlerFindsReminder(i) ==
    /\ arg.pc[i] = "handler"
    /\ arg' = [arg EXCEPT
                   !.pc[i] = IF getLatestReminder(arg.rem).present THEN "mark" ELSE "done"]
    /\ UNCHANGED <<storeVars, result, applied>>

\* markMedicationAsTaken, lines 353-363: the row is read
ReadsMedication(i) ==
    /\ arg.pc[i] = "mark"
    /\ arg' = [arg EXCEPT !.read[i] = arg.takenCount, !.pc[i] = "update"]
    /\ UNCHANGED <<storeVars, result, applied>>

\* markMedicationAsTaken, lines 364-383: takenCount = the count read + 1
WritesTaken(i, succeeds) ==
    /\ arg.pc[i] = "update"
    /\ arg' = IF succeeds
              THEN [arg EXCEPT !.takenCount = arg.read[i] + 1, !.recorded = @ \cup {i},
                               !.pc[i] = "answer"]
              ELSE [arg EXCEPT !.pc[i] = "done"]
    /\ UNCHANGED <<storeVars, result, applied>>

\* handleMedicationTaken, lines 392-410: the reminder is marked responded
MarksResponded(i) ==
    /\ arg.pc[i] = "answer"
    /\ arg' = [arg EXCEPT !.rem = updateReminder([rem |-> arg.rem], "taken", TRUE).rem,
                          !.pc[i] = "done"]
    /\ UNCHANGED <<storeVars, result, applied>>

NextTaken ==
    \/ \E i \in Takers : RouterFindsReminder(i)
    \/ \E i \in Takers : HandlerFindsReminder(i)
    \/ \E i \in Takers : ReadsMedication(i)
    \/ \E i \in Takers, succeeds \in BOOLEAN : WritesTaken(i, succeeds)
    \/ \E i \in Takers : MarksResponded(i)

SpecTaken == InitTaken /\ [][NextTaken]_vars

(***************************************************************************)
(* The life of a pending disambiguation session, with time.  The clock     *)
(* counts minutes, a quarter of an hour at a time, as in the sweep above.  *)
(* arg is                                                                  *)
(*   now        Date.now()                                                 *)
(*   us         userSessions: key -> Entry("disambiguation", ...) or none  *)
(*   reprompts  invalid replies answered so far                            *)
(*   expired    the sweep has removed an entry (history only)              *)
(***************************************************************************)
\* the clock stops after this many quarters of an hour
MaxPendingClock == 5
\* invalid replies explored
MaxReprompts == 2

\* the session the router reads for a sender: getUserSession(from) ||
\* getUserSession(standardizedFrom)
PendingEntry(us, from) ==
    IF us[from].present THEN us[from] ELSE us[standardizePhoneNumber(from)]

\* lines 286-303, 343-360: setUserSession under the sender and under the
\* standardized sender stamps both entries
AskedAt(us, from, now) ==
    [k \in Keys |-> IF k \in {from, standardizePhoneNumber(from)}
                    THEN Entry("disambiguation", now, now) ELSE us[k]]

\* an invalid reply that stores the session again, with a new stamp
InvalidChoice_restamps(us, from, now) ==
    [k \in Keys |-> IF k \in {from, standardizePhoneNumber(from)} /\ us[k].present
                    THEN Entry("disambiguation", now, now) ELSE us[k]]

\* lines 137-142, 151-155: an invalid reply is answered with the question
\* again; the session is not written
InvalidChoice(us, from, now) == us

\* lines 68-69, 100-101, 163-164: a valid reply deletes both entries
ValidChoice(us, from) ==
    [k \in Keys |-> IF k \in {from, standardizePhoneNumber(from)} THEN NoEntry ELSE us[k]]

InitPending ==
    /\ StoreIdle
    /\ arg = [now |-> SweepPeriod, us |-> [k \in Keys |-> NoEntry], reprompts |-> 0,
              expired |-> FALSE]
    /\ result = <<>>
    /\ applied = 0

PendingTick ==
    /\ arg.now < MaxPendingClock * SweepPeriod
    /\ arg' = [arg EXCEPT !.now = @ + SweepPeriod]
    /\ UNCHANGED <<storeVars, result, applied>>

\* the router asks; a pending question is handled first, so there is none.
\* Questions are asked while the clock can still reach their expiry.
RouterAsks(from) ==
    /\ ~PendingEntry(arg.us, from).present
    /\ arg.now + EXPIRY_TIME + SweepPeriod <= MaxPendingClock * SweepPeriod
    /\ arg' = [arg EXCEPT !.us = AskedAt(@, from, arg.now)]
    /\ UNCHANGED <<storeVars, result, applied>>

RepliesInvalid(from) ==
    /\ PendingEntry(arg.us, from).present
    /\ arg.reprompts < MaxReprompts
    /\ arg' = [arg EXCEPT !.us = InvalidChoice(@, from, arg.now), !.reprompts = @ + 1]
    /\ UNCHANGED <<storeVars, result, applied>>

RepliesValid(from) ==
    /\ PendingEntry(arg.us, from).present
    /\ arg' = [arg EXCEPT !.us = ValidChoice(@, from)]
    /\ UNCHANGED <<storeVars, result, applied>>

\* sessionStore.cleanupExpiredSessions on the general sessions
PendingSweep ==
    /\ arg' = [arg EXCEPT
                   !.us = [k \in Keys |-> Expire(Stamp(arg.us[k], arg.now), arg.now)],
                   !.expired = @ \/ \E k \in Keys :
                                       /\ arg.us[k].present
                                       /\ ~Expire(Stamp(arg.us[k], arg.now), arg.now).present]
    /\ UNCHANGED <<storeVars, result, applied>>

NextPending ==
    \/ PendingTick
    \/ \E from \in Senders : RouterAsks(from)
    \/ \E from \in Senders : RepliesInvalid(from)
    \/ \E from \in Senders : RepliesValid(from)
    \/ PendingSweep

\* time advances and the sweep's interval timer keeps firing
SpecPending ==
    InitPending /\ [][NextPending]_vars /\ WF_vars(PendingTick) /\ WF_vars(PendingSweep)

(***************************************************************************)
(* The detector, the resolver and the prompt generator as steps of one     *)
(* invocation over a populated store, followed by the router's write of    *)
(* the pending question.  arg is the sender and the text, result collects  *)
(* what the three functions return, applied counts the steps.              *)
(***************************************************************************)
\* the session maps, the check-in state and the reminder store
Held ==
    [acs |-> accountCreationSessions, us |-> userSessions, ms |-> medicationSessions,
     ci |-> activeCheckInSessions, rem |-> reminders]

Holds(st) ==
    /\ accountCreationSessions' = st.acs
    /\ userSessions' = st.us
    /\ medicationSessions' = st.ms
    /\ activeCheckInSessions' = st.ci
    /\ reminders' = st.rem
    /\ UNCHANGED <<knownUser, timers, received, last>>

\* a detector that consumes the general session it reads
StoreAfterDetect_consumes(st, userPhone) ==
    [st EXCEPT !.us = [@ EXCEPT ![standardizePhoneNumber(userPhone)] = NoUserSession]]

\* detectConversationConflicts calls the three getters, indexes
\* activeCheckInSessions and awaits getLatestReminder; it calls no setter
\* and no delete, and assigns to none of the objects it reads
StoreAfterDetect(st, userPhone) == st

\* handleDisambiguation and generateDisambiguationMessage work on their
\* arguments only; neither has the store in scope
StoreAfterResolve(st) == st

InitFrame ==
    /\ \E a \in {NoAccSession, AccSess("self_name")} :
          accountCreationSessions = Under(Std, a, NoAccSession)
    /\ \E u \in {NoUserSession, Plain("symptom", "primary"), Plain("undefined", "main_menu")} :
          userSessions = Under(Std, u, NoUserSession)
    /\ \E m \in {NoMedSession, MedSess(Stage1)} :
          medicationSessions = Under(Std, m, NoMedSession)
    /\ activeCheckInSessions \in {NoCheckIn, CheckIn("initial")}
    /\ reminders \in {NoReminder, Reminder("Aspirin", FALSE, "sent")}
    /\ knownUser = TRUE
    /\ timers = [k \in Keys |-> 0]
    /\ received = 0
    /\ last = Idle
    /\ \E from \in Senders, text \in {Txt1, YES, <<"a", "b", "c">>} :
          arg = [from |-> from, text |-> text]
    /\ result = <<>>
    /\ applied = 0

FrameDetects ==
    /\ applied = 0
    /\ result' = [info |-> detectConversationConflicts(
                               arg.from,
                               StoreOf(accountCreationSessions, userSessions,
                                       medicationSessions, activeCheckInSessions,
                                       reminders, knownUser, timers),
                               activeCheckInSessions),
                  resolution |-> <<>>, prompt |-> <<>>]
    /\ applied' = 1
    /\ Holds(StoreAfterDetect(Held, arg.from))
    /\ UNCHANGED arg

FrameResolves ==
    /\ applied = 1
    /\ result.info.hasConflict
    /\ result' = [result EXCEPT !.resolution = handleDisambiguation(arg.text, result.info)]
    /\ applied' = 2
    /\ Holds(StoreAfterResolve(Held))
    /\ UNCHANGED arg

FramePrompts ==
    /\ applied = 2
    /\ result.resolution.needsDisambiguation
    /\ result' = [result EXCEPT !.prompt = generateDisambiguationMessage(result.resolution)]
    /\ applied' = 3
    /\ Holds(StoreAfterResolve(Held))
    /\ UNCHANGED arg

\* part_006 lines 286-303: the router stores the pending question under the
\* sender and under the standardized sender
FrameRouterStores ==
    /\ applied = 3
    /\ applied' = 4
    /\ Holds([Held EXCEPT
                 !.us = [k \in Keys |->
                            IF k \in {arg.from, standardizePhoneNumber(arg.from)}
                            THEN UserSess("disambiguation", "general", <<>>, arg.text,
                                          "undefined")
                            ELSE @[k]]])
    /\ UNCHANGED <<arg, result>>

NextFrame == FrameDetects \/ FrameResolves \/ FramePrompts \/ FrameRouterStores

SpecFrame == InitFrame /\ [][NextFrame]_vars

(***************************************************************************)
(* Properties of the normalizer, the detector, the resolver and the prompt *)
(***************************************************************************)

\* C9: normalizing an identity a second time changes nothing:
\* normalize(normalize(x)) = normalize(x) for every identity string x.
C9_Idempotent == applied = 2 => result[2] = result[1]

\* an identity that carries the prefix twice has been normalized twice
C9_TwicePrefixed ==
    /\ applied = 2
    /\ Len(arg) >= 2 /\ arg[1] = WA /\ arg[2] = WA
    /\ result[2] # result[1]

StrictlyDescending(list) ==
    \A i, j \in 1..Len(list) :
        i < j => /\ list[i].priority > list[j].priority
                 /\ list[i].type # list[j].type

\* C6: the list the detector returns is ordered by strictly descending
\* priority and no two kinds share a priority, so a medication reminder is
\* first whenever it is present and a general query is last.
C6_StrictOrder ==
    /\ \A k1, k2 \in Kinds :
          k1 # k2 => CONVERSATION_PRIORITIES(k1) # CONVERSATION_PRIORITIES(k2)
    /\ applied = 1 =>
          LET list == result.activeConversations
          IN  /\ StrictlyDescending(list)
              /\ result.hasConflict = (Len(list) > 1)
              /\ HasKind(list, "medication_reminder") => list[1].type = "medication_reminder"
              /\ HasKind(list, "general_query") => list[Len(list)].type = "general_query"

\* the detector has returned all five sources at once, reminder first and
\* the unclassified general session last
C6_AllFive ==
    /\ applied = 1
    /\ Len(result.activeConversations) = 5
    /\ result.activeConversations[1].type = "medication_reminder"
    /\ result.activeConversations[5].type = "general_query"

KindNamed(item) ==
    CASE item.label \in {"Menu selection", "Menu navigation"}        -> "menu_navigation"
      [] item.label \in {"Symptom assessment", "Symptom follow-up"}  -> "symptom_assessment"
      [] item.label = "Account creation"                             -> "account_creation"
      [] item.label = "Medication management"                        -> "medication_management"
      [] item.label = "Check-in"                                     -> "check_in_response"
      [] item.label = "Medication reminder"                          -> "medication_reminder"
      [] item.label = "Symptom emergency"                            -> "symptom_emergency"
      [] OTHER                                                       -> "general_query"

Answered == last.op = "webhook"
Arrives == last.op = "none" /\ last'.op = "webhook"

IsPrompt(kind) == kind \in {"prompt", "reprompt"}
Prompts(sent) == Len(SelectSeq(sent, IsPrompt))

\* the pending session the router reads for a sender, on the current store
PendingFor(from) ==
    OrUser(userSessions[from], userSessions[standardizePhoneNumber(from)])

\* C1: every invocation of the router ends with exactly one dialog handler
\* invoked or exactly one disambiguation prompt sent, never none and never
\* two.
C1_ExactlyOne == Answered => Len(last.calls) + Prompts(last.sent) = 1

\* the dialog handlers of a kind of conversation
HandlersOf(kind) ==
    CASE kind = "medication_reminder"   -> {"handleMedicationTaken", "handleMedicationMissed"}
      [] kind = "check_in_response"     -> {"processCheckInResponse"}
      [] kind = "symptom_assessment"    -> {"continueSymptomAssessment", "handleFollowUpResponse"}
      [] kind = "medication_management" -> {"continueAddMedication", "continueMedicationUpdate",
                                            "continueMedicationDeletion"}
      [] kind = "account_creation"      -> {"continueAccountCreation"}
      [] kind = "menu_navigation"       -> {"handleMainMenuSelection",
                                            "handleMedicationMenuSelection"}
      [] kind = "general_query"         -> {"getAIResponse"}
      [] OTHER                          -> {}

\* the number of choices a pending disambiguation offers
Choices(pending) ==
    IF pending.stage = "reminder_vs_checkin" THEN 2 ELSE Len(pending.options)

\* the reply is a bare decimal index among n choices
BareIndex(reply, n) == reply # <<>> /\ IsAllDigits(reply) /\ DecimalValue(reply) \in 1..n

\* C2: with a pending general disambiguation holding options O and the
\* original text T, the reply i (1 <= i <= |O|) dispatches T to the dialog
\* handler of the kind of O[i], whatever that kind is.
C2_RoundTrip ==
    [][ LET pending == PendingFor(last'.from)
            reply == trim(last'.body)
        IN  (/\ Arrives
             /\ pending.type = "disambiguation" /\ pending.stage = "general"
             /\ BareIndex(reply, Len(pending.options)))
            => /\ Len(last'.calls) = 1
               /\ last'.calls[1].h \in HandlersOf(pending.options[DecimalValue(reply)].type)
               /\ last'.calls[1].body = pending.originalResponse ]_vars

\* C3: with a pending disambiguation, a reply that is not a bare decimal
\* index among the options leaves the pending session as it was under both
\* keys, invokes no handler and sends the re-prompt.
C3_InvalidReplyReprompts ==
    [][ LET pending == PendingFor(last'.from)
            reply == trim(last'.body)
        IN  (/\ Arrives
             /\ pending.type = "disambiguation"
             /\ ~BareIndex(reply, Choices(pending)))
            => /\ userSessions' = userSessions
               /\ last'.calls = <<>>
               /\ last'.sent = <<"reprompt">> ]_vars

\* C4: with a check-in in its initial state, an unresponded reminder inside
\* the window and no session of any other kind, the message "yes" makes the
\* router ask the two-option reminder-or-check-in question and store the
\* pending disambiguation, and the taken handler is not invoked.
C4_YesAsksReminderOrCheckIn ==
    [][ (/\ Arrives
         /\ activeCheckInSessions = CheckIn("initial")
         /\ getLatestReminder(reminders).present
         /\ accountCreationSessions = Absent(NoAccSession)
         /\ userSessions = Absent(NoUserSession)
         /\ medicationSessions = Absent(NoMedSession)
         /\ trim(last'.body) = YES)
        => /\ last'.calls = <<>>
           /\ last'.sent = <<"prompt">>
           /\ userSessions'[last'.from].type = "disambiguation"
           /\ userSessions'[last'.from].stage = "reminder_vs_checkin"
           /\ userSessions'[standardizePhoneNumber(last'.from)] = userSessions'[last'.from] ]_vars

Affirmative(text) == toLowerCase(trim(text)) \in {YES, TAKEN}
Negative(text) == toLowerCase(trim(text)) \in {NO, MISSED}

\* C5: when a disambiguation is resolved to the medication reminder, the
\* taken handler runs only for an affirmative original text and the missed
\* handler only for a negative one; a text that is neither never records
\* the dose as missed.
C5_TakenMissedByPolarity ==
    (/\ Answered
     /\ \/ last.path = "rvc_reminder"
        \/ last.path = "general_choice" /\ last.selected.type = "medication_reminder")
    => \A i \in 1..Len(last.calls) :
          /\ last.calls[i].h = "handleMedicationTaken" => Affirmative(last.calls[i].body)
          /\ last.calls[i].h = "handleMedicationMissed" => Negative(last.calls[i].body)
          /\ (~Affirmative(last.calls[i].body) /\ ~Negative(last.calls[i].body))
                => "missed" \notin {last.writes[j] : j \in 1..Len(last.writes)}

\* the sender's own key holds nothing, the standardized key holds session
OnlyUnderStd(sessions, from, none) ==
    /\ sessions[standardizePhoneNumber(from)] # none
    /\ from # standardizePhoneNumber(from) => sessions[from] = none

C11_SweepKeepsFreshDropsStale ==
    applied = 1 =>
        \A m \in SessionMaps :
            LET before == result.before[m]
                after == arg.sessions[m]
            IN  before.present =>
                    IF result.at - before.written > EXPIRY_TIME
                    THEN ~after.present
                    ELSE after.present /\ after.stage = before.stage

(***************************************************************************)
(* Properties of the router: reminder replies, the cascade and the gate    *)
(***************************************************************************)
IsReminderReply(body) == toLowerCase(trim(body)) \in {YES, NO, TAKEN, MISSED}

NoGeneralSession(sessions) == \A k \in Keys : sessions[k] = NoUserSession

\* C12: a message that is yes, no, taken or missed (trimmed, in any case),
\* with an unresponded reminder inside the window, no active check-in and
\* no pending disambiguation, is dispatched to the taken handler for
\* yes/taken and to the missed handler for no/missed; afterwards no general
\* session is left under either key, and the account-creation and
\* medication sessions are as they were.
C12_ReminderReplyDispatched ==
    [][ (/\ Arrives
         /\ IsReminderReply(last'.body)
         /\ getLatestReminder(reminders).present
         /\ ~activeCheckInSessions.present
         /\ PendingFor(last'.from).type # "disambiguation")
        => /\ Len(last'.calls) = 1
           /\ last'.calls[1].h = (IF Affirmative(last'.body) THEN "handleMedicationTaken"
                                  ELSE "handleMedicationMissed")
           /\ NoGeneralSession(userSessions')
           /\ accountCreationSessions' = accountCreationSessions
           /\ medicationSessions' = medicationSessions ]_vars

HandledReminder(calls) ==
    \E i \in 1..Len(calls) : calls[i].h \in {"handleMedicationTaken", "handleMedicationMissed"}

\* C13: once the taken or the missed handler has processed a message for
\* an unresponded reminder, that reminder is marked responded, so the next
\* yes or no is not attributed to it again.
C13_HandledReminderIsResponded ==
    [][ (/\ Arrives
         /\ getLatestReminder(reminders).present
         /\ HandledReminder(last'.calls))
        => /\ reminders'.present /\ reminders'.responded
           /\ ~getLatestReminder(reminders').present ]_vars

\* the sessions of all three maps, with the map they are in
AllSessions ==
    {<<"account", accountCreationSessions[k]>> : k \in {k \in Keys : accountCreationSessions[k].present}}
    \cup {<<"medication", medicationSessions[k]>> : k \in {k \in Keys : medicationSessions[k].present}}
    \cup {<<"general", userSessions[k]>> : k \in {k \in Keys : userSessions[k] # NoUserSession}}

\* the continuation handler the cascade has for a session, if it has one
ContinuationOf(s) ==
    CASE s[1] = "account" -> {"continueAccountCreation"}
      [] s[1] = "medication" /\ (s[2].stage \in {Stage1, Stage2} \/ startsWith(s[2].stage, "add_"))
            -> {"continueAddMedication"}
      [] s[1] = "medication" /\ startsWith(s[2].stage, "update_") -> {"continueMedicationUpdate"}
      [] s[1] = "medication" /\ startsWith(s[2].stage, "delete_") -> {"continueMedicationDeletion"}
      [] s[1] = "general" /\ s[2].type = "symptom" -> {"continueSymptomAssessment"}
      [] s[1] = "general" /\ s[2].type = "follow_up" -> {"handleFollowUpResponse"}
      [] s[1] = "general" /\ s[2].type = "undefined" /\ s[2].stage = "main_menu"
            -> {"handleMainMenuSelection"}
      [] s[1] = "general" /\ s[2].type = "undefined" /\ s[2].stage = "medication_menu"
            -> {"handleMedicationMenuSelection"}
      [] s[1] = "general" /\ s[2].type = "undefined" /\ s[2].stage = "medication_info_selection"
            -> {"handleMedicationInfoSelection"}
      [] OTHER -> {}

\* C14: when the only active conversation of an identity is one session
\* the cascade has a continuation for, every message that is not a reply
\* to a fresh reminder goes to that continuation handler and to nothing
\* else: the identity gate, the commands and the AI fallback are not
\* reached, whatever the text is.
C14_OnlySessionContinues ==
    [][ (/\ Arrives
         /\ Cardinality(AllSessions) = 1
         /\ \A s \in AllSessions : ContinuationOf(s) # {}
         /\ ~activeCheckInSessions.present
         /\ ~getLatestReminder(reminders).present
         /\ ~(IsReminderReply(last'.body) /\ getLatestReminder(reminders').present)
         /\ ~(IsReminderReply(last'.body) /\ HandledReminder(last'.calls)))
        => /\ Len(last'.calls) = 1
           /\ \A s \in AllSessions : last'.calls[1].h \in ContinuationOf(s)
           /\ last'.calls[1].body = last'.body ]_vars

NoSessionAtAll ==
    /\ AllSessions = {}
    /\ \A k \in Keys : userSessions[k] = NoUserSession

\* C15: an identity that is not a known user and has no session, no active
\* check-in and no active symptom assessment never reaches the commands or
\* the AI fallback: the create-account command starts account creation,
\* every other message, hi included, gets the create-account prompt.
C15_UnknownIdentityIsGated ==
    [][ (/\ Arrives
         /\ ~knownUser
         /\ NoSessionAtAll
         /\ ~activeCheckInSessions.present
         /\ last'.path # "numeric_follow_up")
        => LET m == toLowerCase(trim(last'.body))
           IN  /\ Len(last'.calls) = 1
               /\ last'.calls[1].h =
                      (IF m \in {Command.create_an_account, Command.create_account}
                       THEN "startAccountCreation" ELSE "askToCreateAccount")
               /\ last'.path = (IF m \in {Command.create_an_account, Command.create_account}
                                THEN "create_account" ELSE "no_account") ]_vars

\* an unknown identity without any conversation has said hi and has been
\* asked to create an account
C15_HiGetsCreateAccountPrompt ==
    /\ Answered
    /\ last.body = HI
    /\ ~knownUser
    /\ last.path = "no_account"
    /\ last.calls = <<[h |-> "askToCreateAccount", body |-> HI]>>
    /\ NoSessionAtAll /\ ~activeCheckInSessions.present

\* C16: with a pending reminder-or-check-in disambiguation, the reply 1
\* clears the disambiguation session and the active check-in and gives the
\* stored original text to the taken handler if it is affirmative and to the
\* missed handler otherwise; the reply 2 clears the session, marks the stored
\* reminder responded with status skipped and gives the stored original text
\* to the check-in processor.
C16_ReminderOrCheckInChoice ==
    [][ LET pending == PendingFor(last'.from)
            reply == trim(last'.body)
        IN  (/\ Arrives
             /\ pending.type = "disambiguation" /\ pending.stage = "reminder_vs_checkin"
             /\ reply \in {Txt1, Txt2})
            => /\ \A k \in Keys : userSessions'[k].type # "disambiguation"
               /\ Len(last'.calls) = 1
               /\ last'.calls[1].body = pending.originalResponse
               /\ IF reply = Txt1
                  THEN /\ ~activeCheckInSessions'.present
                       /\ last'.calls[1].h = (IF Affirmative(pending.originalResponse)
                                              THEN "handleMedicationTaken"
                                              ELSE "handleMedicationMissed")
                  ELSE /\ getLatestReminder(reminders).present
                            => reminders'.responded /\ reminders'.status = "skipped"
                       /\ last'.calls[1].h = "processCheckInResponse" ]_vars

\* C17: in every reachable state every key that holds a session, in any of
\* the three maps, is in normalized form.
C17_KeysNormalized ==
    \A k \in Keys :
        (accountCreationSessions[k].present \/ medicationSessions[k].present
         \/ userSessions[k] # NoUserSession)
            => standardizePhoneNumber(k) = k

\* C18: when the general sessions under the raw and the normalized key of an
\* identity both exist and differ, the router acts on the one under the
\* normalized key: it resolves a pending disambiguation only if that one is
\* pending, and the session its cascade works on is that one.
C18_PrefersNormalized ==
    [][ (/\ Arrives
         /\ last'.from = Raw
         /\ userSessions[Raw] # NoUserSession /\ userSessions[Std] # NoUserSession
         /\ userSessions[Raw] # userSessions[Std])
        => /\ userSessions[Std].type # "disambiguation"
                => last'.path \notin {"rvc_reminder", "rvc_checkin", "rvc_invalid",
                                      "general_choice", "general_invalid"}
           /\ last'.found.looked => last'.found.user = userSessions[Std] ]_vars

\* C19: a session that has been deleted does not reappear unless a handler
\* that starts a dialog creates it again: the entry of the map, when there
\* is one, was started after the last deletion, in every interleaving of
\* overlapping invocations and the sweep.
C19_NoResurrection ==
    arg.entry # 0 => arg.heap[arg.entry].born = arg.epoch

Step1Paths == {"rvc_reminder", "rvc_checkin", "rvc_invalid", "general_choice", "general_invalid"}

\* C20: an invocation that raises an exception after the pending
\* disambiguation step answers with the generic retry-later message, and
\* every disambiguation session in the map at its end was there, unchanged,
\* before it: the invocation leaves none of its own under either key.
C20_ExceptionAnswered ==
    [][ (/\ Arrives
         /\ last'.raised
         /\ last'.path \notin Step1Paths)
        => /\ last'.status = 500
           /\ last'.sent # <<>> /\ last'.sent[Len(last'.sent)] = "error"
           /\ \A k \in Keys : userSessions'[k].type = "disambiguation"
                                  => userSessions'[k] = userSessions[k] ]_vars

\* a continuation handler has thrown and the router has answered with the
\* retry-later message
C20_HandlerThrewAndWasAnswered ==
    /\ Answered
    /\ last.raised
    /\ last.path \notin Step1Paths
    /\ Len(last.calls) = 1
    /\ last.status = 500
    /\ last.sent = <<"error">>

ExpectedMissing(h, from) ==
    CASE h = "continueAccountCreation" -> ~accountCreationSessions[from].present
      [] h = "continueSymptomAssessment" -> userSessions[from].type # "symptom"
      [] h = "handleFollowUpResponse" ->
            /\ userSessions[from].type # "follow_up"
            /\ userSessions[standardizePhoneNumber(from)].type # "follow_up"
      [] h \in {"continueAddMedication", "continueMedicationUpdate", "continueMedicationDeletion"}
            -> ~medicationSessions[from].present
      [] OTHER -> FALSE

\* the dialog of a continuation handler is at its entry point
Restarted(h, acs, us, ms) ==
    CASE h = "continueAccountCreation" -> acs = AccSess("account_type")
      [] h = "continueSymptomAssessment" -> us = Plain("symptom", "primary")
      [] h = "handleFollowUpResponse" -> us.type = "follow_up"
      [] h = "continueAddMedication" -> ms = MedSess(Stage1)
      [] h = "continueMedicationUpdate" -> ms = MedSess(UpdateStage("start"))
      [] h = "continueMedicationDeletion" -> ms = MedSess(DeleteStage("select"))
      [] OTHER -> FALSE

\* C22: a continuation handler that is invoked while the session it expects
\* is absent restarts its dialog: it does not throw, it sends a message and
\* a fresh start-of-dialog session exists afterwards.  This holds for the
\* account, symptom, follow-up and the three medication wizard handlers.
C22_AbsentSessionRestarts ==
    [][ (/\ Arrives
         /\ Len(last'.calls) = 1
         /\ ExpectedMissing(last'.calls[1].h, last'.from))
        => /\ ~last'.raised
           /\ last'.sent # <<>>
           /\ Restarted(last'.calls[1].h, accountCreationSessions'[last'.from],
                        userSessions'[last'.from], medicationSessions'[last'.from]) ]_vars

\* C23: when a disambiguation session exists for the identity under the raw
\* or the normalized key as a message arrives, the router resolves it or
\* re-prompts and returns: detection, the reminder fast path, the cascade,
\* the commands and the AI fallback do not run for that message.
C23_PendingComesFirst ==
    [][ (/\ Arrives
         /\ \E k \in Keys : userSessions[k].type = "disambiguation")
        => /\ last'.path \in Step1Paths
           /\ last'.seen = <<>>
           /\ ~last'.found.looked ]_vars

\* the kind the specification gives a general dialog session
KindOfGeneral(userSession) ==
    IF userSession.type \in {"symptom", "follow_up"} THEN "symptom_assessment"
    ELSE IF userSession.stage \in {"main_menu", "medication_menu", "medication_info_selection"}
    THEN "menu_navigation"
    ELSE "general_query"

GeneralKinds == {"symptom_assessment", "menu_navigation", "general_query"}

CountOf(list, kinds) == Cardinality({i \in 1..Len(list) : list[i].type \in kinds})

\* C24: the detector classifies a general dialog session as
\* symptom_assessment when its type is symptom or follow_up, as
\* menu_navigation when its stage is main_menu, medication_menu or
\* medication_info_selection, and as general_query otherwise.
C24_GeneralSessionKind ==
    applied = 1 =>
        LET userSession == userSessions[Std]
            list == result.activeConversations
        IN  userSession # NoUserSession
                => \A i \in 1..Len(list) :
                      list[i].type \in GeneralKinds => list[i].type = KindOfGeneral(userSession)

Records(present) == IF present THEN 1 ELSE 0

\* C25: the detector returns exactly one record for each source its five
\* queries find and none for a source they do not find, and reports a
\* conflict if and only if it returns two or more records.
C25_OneRecordPerSource ==
    applied = 1 =>
        LET list == result.activeConversations
        IN  /\ CountOf(list, {"account_creation"}) = Records(accountCreationSessions[Std].present)
            /\ CountOf(list, GeneralKinds) = Records(userSessions[Std] # NoUserSession)
            /\ CountOf(list, {"medication_management"}) = Records(medicationSessions[Std].present)
            /\ CountOf(list, {"check_in_response"}) = Records(activeCheckInSessions.present)
            /\ CountOf(list, {"medication_reminder"})
                   = Records(reminders.present /\ ~reminders.responded)
            /\ CountOf(list, Kinds) = Len(list)
            /\ result.hasConflict <=> Len(list) >= 2

\* the detector has been asked from the raw form of the sender, with an
\* account session and a check-in present and the reminder already
\* responded: two records, a conflict, and none for the reminder
C25_TwoRecordsOneAbsentSource ==
    /\ applied = 1
    /\ arg = Raw
    /\ reminders.present /\ reminders.responded
    /\ accountCreationSessions[Std].present /\ activeCheckInSessions.present
    /\ Len(result.activeConversations) = 2
    /\ result.hasConflict

\* C26: the resolver answers that no disambiguation is needed exactly when
\* there is no conflict (target: the single record, or none) or the trimmed
\* text is yes, no, taken or missed in any case and a medication reminder is
\* among the records (target: that record); every other conflict, the
\* numeric menu-or-symptom rule apart, needs a general disambiguation whose
\* options are all the records.
C26_ResolveRules ==
    applied >= 1 =>
        LET r == result.resolution
            conflictInfo == arg.conflictInfo
            list == conflictInfo.activeConversations
            text == toLowerCase(trim(arg.text))
            direct == text \in {YES, NO, TAKEN, MISSED} /\ HasKind(list, "medication_reminder")
            numeric == /\ IsAllDigits(text)
                       /\ HasKind(list, "menu_navigation")
                       /\ HasKind(list, "symptom_assessment")
        IN  /\ ~r.needsDisambiguation <=> (~conflictInfo.hasConflict \/ direct)
            /\ ~conflictInfo.hasConflict
                   => r.targetConversation = (IF list = <<>> THEN NoTarget ELSE list[1])
            /\ conflictInfo.hasConflict /\ direct
                   => r.targetConversation = FindKind(list, "medication_reminder")
            /\ conflictInfo.hasConflict /\ ~direct /\ ~numeric
                   => /\ r.needsDisambiguation
                      /\ r.conflictType = "general"
                      /\ r.options = list

\* "Yes " among three conversations, a reminder one of them, has been
\* resolved to the reminder without a question
C26_YesWithBlankGoesToReminder ==
    /\ applied = 1
    /\ arg.text = <<"Y", "e", "s", " ">>
    /\ Len(arg.conflictInfo.activeConversations) = 3
    /\ ~result.resolution.needsDisambiguation
    /\ result.resolution.targetConversation.type = "medication_reminder"

AskPaths == {"general_prompt", "rvc_prompt"}

\* C27: whenever the router decides that a disambiguation is required, a
\* session of type disambiguation holding the options offered and the
\* original text exists under the sender's key and under its normalized
\* form when the invocation returns, exactly one prompt has been sent and no
\* dialog handler has been invoked.
C27_AskPersistsOptions ==
    [][ (/\ Arrives
         /\ last'.path \in AskPaths)
        => LET pending == userSessions'[last'.from]
           IN  /\ pending.type = "disambiguation"
               /\ userSessions'[standardizePhoneNumber(last'.from)] = pending
               /\ Len(pending.options) >= 2
               /\ pending.originalResponse = trim(last'.body)
               /\ Prompts(last'.sent) = 1
               /\ last'.calls = <<>> ]_vars

ChoicePaths == {"general_choice", "rvc_reminder", "rvc_checkin"}

\* C28: when a valid choice resolves a pending disambiguation, the
\* disambiguation session is gone under the raw and under the normalized
\* key by the time the chosen dialog handler is called.
C28_ClearedBeforeHandler ==
    [][ (/\ Arrives
         /\ PendingFor(last'.from).type = "disambiguation"
         /\ last'.path \in ChoicePaths
         /\ last'.calls # <<>>)
        => ~last'.pendingAtCall ]_vars

\* the place of a session in the order of the cascade, 0 when the cascade
\* has no continuation for it
RankOf(s) ==
    CASE s[1] = "account" -> 1
      [] s[1] = "medication" /\ (s[2].stage \in {Stage1, Stage2} \/ startsWith(s[2].stage, "add_")) -> 2
      [] s[1] = "medication" /\ startsWith(s[2].stage, "update_") -> 3
      [] s[1] = "medication" /\ startsWith(s[2].stage, "delete_") -> 4
      [] s[1] = "general" /\ s[2].type = "symptom" -> 5
      [] s[1] = "general" /\ s[2].type = "follow_up" -> 6
      [] s[1] = "general" /\ s[2].type = "undefined" /\ s[2].stage = "main_menu" -> 7
      [] s[1] = "general" /\ s[2].type = "undefined" /\ s[2].stage = "medication_menu" -> 8
      [] s[1] = "general" /\ s[2].type = "undefined" /\ s[2].stage = "medication_info_selection" -> 9
      [] OTHER -> 0

Matches(sessions) == {s \in sessions : RankOf(s) > 0}

FirstMatches(sessions) ==
    {s \in Matches(sessions) : \A t \in Matches(sessions) : RankOf(s) <= RankOf(t)}

\* steps 1 to 3 of the router do not apply to the arriving message: no
\* disambiguation is pending, none is asked, and the message is not taken
\* as the reply to a reminder
CascadeDecides ==
    /\ Arrives
    /\ \A k \in Keys : userSessions[k].type # "disambiguation"
    /\ last'.path \notin AskPaths
    /\ ~getLatestReminder(reminders).present
    /\ ~HandledReminder(last'.calls)

\* C29: when steps 1 to 3 do not apply and several sessions exist for the
\* identity, the one handler the router calls is the continuation of the
\* first session in the order account creation, medication add, update,
\* delete, symptom, follow_up, main_menu, medication_menu,
\* medication_info_selection; no later match is called.
C29_FirstMatchContinues ==
    [][ (/\ CascadeDecides
         /\ Cardinality(AllSessions) >= 2
         /\ Matches(AllSessions) # {})
        => /\ Len(last'.calls) = 1
           /\ \A s \in FirstMatches(AllSessions) : last'.calls[1].h \in ContinuationOf(s) ]_vars

\* the answers of the identity gate, the stateless commands and the AI
\* fallback
LaterPaths ==
    {"create_account", "no_account", "proxy", "welcome", "menu", "symptom_start",
     "symptom_status", "add_medicine", "update_medicine", "delete_medicine", "history",
     "medicine_info", "report", "ai"}

ProbeHandlers == {"processCheckInResponse", "processFollowUpResponse"}

\* C30: when the check-in processor, the assessments lookup or the
\* follow-up processor reports failure during the check-in probe or the
\* direct numeric probe, the router goes on with the same message: it is
\* answered by the identity gate, a stateless command or the fallback (or,
\* after a declined check-in probe, by the numeric probe that comes next),
\* and the generic error is sent only if that later handler itself fails.
C30_DeclinedProbeFallsThrough ==
    (Answered /\ last.declined # <<>>)
        => /\ \/ last.path \in LaterPaths
              \/ last.path = "numeric_follow_up" /\ last.declined = <<"processCheckInResponse">>
           /\ Len(last.calls) = 1
           /\ last.calls[1].body = last.body
           /\ last.path \in LaterPaths => last.calls[1].h \notin ProbeHandlers
           /\ last.responses = 1
           /\ last.status = (IF last.raised THEN 500 ELSE 200)
           /\ ~last.raised => "error" \notin {last.sent[i] : i \in 1..Len(last.sent)}

\* the analysis of a reply to an active check-in failed, the check-in is
\* still open and the message went to the AI fallback
C30_FailedCheckInAnsweredByFallback ==
    /\ Answered
    /\ last.declined = <<"processCheckInResponse">>
    /\ activeCheckInSessions.present
    /\ last.path = "ai"
    /\ last.status = 200

\* every entry but the one under key k of map m is as it was
OthersUnchanged(m, k) ==
    \A n \in SessionMaps, j \in Keys :
        (n # m \/ j # k) => arg'.maps[n][j] = arg.maps[n][j]

\* C31: a set or a delete of one session kind under one key leaves the
\* entries of the other two kinds and the entries of the same kind under
\* the other key as they were; set replaces the whole entry by the data
\* passed, stamped with the current time, and delete leaves no entry.
C31_SetAndDeleteFrame ==
    [][ /\ result'.op = "set"
            => /\ OthersUnchanged(result'.map, result'.key)
               /\ arg'.maps[result'.map][result'.key] =
                      [present |-> TRUE, stage |-> result'.data.stage,
                       data |-> result'.data.data, timestamp |-> arg.now]
        /\ result'.op = "delete"
            => /\ OthersUnchanged(result'.map, result'.key)
               /\ ~arg'.maps[result'.map][result'.key].present ]_vars

\* a set has overwritten an entry that had a data field and an older stamp
\* with data that has none, while entries of another kind and under the
\* other key exist
C31_OverwroteOlderEntry ==
    /\ result.op = "set"
    /\ result.data.data = "undefined"
    /\ arg.now = MaxStoreClock
    /\ arg.maps[result.map][result.key].timestamp = arg.now
    /\ \E k \in Keys \ {result.key} : /\ arg.maps[result.map][k].present
                                      /\ arg.maps[result.map][k].data = "x"
                                      /\ arg.maps[result.map][k].timestamp < arg.now
    /\ \E n \in SessionMaps \ {result.map} : arg.maps[n][result.key].present

IsInk(c) == c \notin WhiteSpace

RECURSIVE Joined(_)
Joined(chunks) == IF chunks = <<>> THEN <<>> ELSE Head(chunks) \o Joined(Tail(chunks))

\* C32: for every message text and every maxLength the splitter
\* terminates (every turn of its loop shortens what remains), and every
\* chunk it returns is non-empty and at most maxLength characters long,
\* with the characters that are not white space in the order of the
\* message and none of them dropped.
C32_ChunksFitAndKeepText ==
    [][ /\ Len(result'.chunks) > Len(result.chunks) /\ ~result'.returned
            => Len(result'.remainingMessage) < Len(result.remainingMessage)
        /\ result'.returned
            => /\ \A i \in 1..Len(result'.chunks) :
                      /\ Len(result'.chunks[i]) > 0
                      /\ Len(result'.chunks[i]) <= arg.maxLength
               /\ SelectSeq(Joined(result'.chunks), IsInk) = SelectSeq(arg.message, IsInk) ]_vars

MenuAndSymptom(conversations) ==
    HasKind(conversations, "menu_navigation") /\ HasKind(conversations, "symptom_assessment")

\* C33: the list the detector returns never holds a menu_navigation record
\* together with a symptom_assessment record, so the router never sends
\* the menu-or-symptom question and never stores a disambiguation session
\* that offers these two.
C33_NeverMenuVsSymptom ==
    /\ ~MenuAndSymptom(last.seen)
    /\ last.prompt # generateDisambiguationMessage(Resolution(TRUE, "menu_vs_symptom", <<>>, NoTarget))
    /\ \A k \in Keys : userSessions[k].type = "disambiguation"
                          => ~MenuAndSymptom(userSessions[k].options)

\* a number arrived while a menu and another conversation were active, and
\* the general question was asked
C33_NumberWithMenuAskedGenerally ==
    /\ Answered
    /\ IsAllDigits(trim(last.body))
    /\ HasKind(last.seen, "menu_navigation")
    /\ last.path = "general_prompt"
    /\ Len(last.prompt) >= 2

MedicationContinuations ==
    {"continueAddMedication", "continueMedicationUpdate", "continueMedicationDeletion"}

\* the session a continuation handler reads for the sender, on the current
\* store, and the one the router's lookup found for it
ReadBy(h, from) ==
    CASE h = "continueAccountCreation" -> accountCreationSessions[from]
      [] h \in MedicationContinuations -> medicationSessions[from]
      [] h = "handleFollowUpResponse" ->
             IF userSessions[from].type = "follow_up" THEN userSessions[from]
             ELSE userSessions[standardizePhoneNumber(from)]
      [] OTHER -> userSessions[from]

FoundFor(h, found) ==
    CASE h = "continueAccountCreation" -> found.acc
      [] h \in MedicationContinuations -> found.med
      [] OTHER -> found.user

ReadingContinuations ==
    MedicationContinuations
    \cup {"continueAccountCreation", "continueSymptomAssessment", "handleFollowUpResponse",
          "handleMedicationInfoSelection"}

\* C34: when the cascade dispatches a message to a continuation handler
\* for a session found under the raw or the normalized key, the handler
\* reads that same session and processes the message without failing; so
\* the wizard session a proxy add-medicine command created is continued by
\* the caregiver's next message.
C34_HandlerFindsSession ==
    [][ (/\ Arrives
         /\ last'.found.looked
         /\ last'.calls # <<>>
         /\ last'.calls[1].h \in ReadingContinuations)
        => /\ ReadBy(last'.calls[1].h, last'.from) = FoundFor(last'.calls[1].h, last'.found)
           /\ ~last'.raised
           /\ last'.status = 200 ]_vars

HasSent(sent, kind) == \E i \in 1..Len(sent) : sent[i] = kind

\* C35: when the conversation chosen in answer to the general question is
\* the symptom assessment or the symptom follow-up that was active when the
\* question was asked, the replayed message goes to the handler of that
\* session's type, which finds the session as it was and does not start
\* the dialog again.
C35_ChosenSymptomDialogResumes ==
    [][ (/\ Arrives
         /\ last'.path = "general_choice"
         /\ last'.selected.type = "symptom_assessment")
        => /\ Len(last'.calls) = 1
           /\ last'.calls[1].h = (IF last'.selected.description.label = "Symptom follow-up"
                                  THEN "handleFollowUpResponse"
                                  ELSE "continueSymptomAssessment")
           /\ ~HasSent(last'.sent, "restart")
           /\ userSessions'[last'.from] # Plain("symptom", "primary") ]_vars

\* C36: when two invocations for one identity overlap, each with a valid
\* choice for the same pending disambiguation session, at most one of
\* them re-dispatches the stored original message.
C36_ReplayedAtMostOnce == arg.overlapped => Cardinality(arg.replayed) <= 1

DialogTypes == {"symptom", "follow_up", "disambiguation"}

\* C37: the delayed main-menu send a handler scheduled never overwrites a
\* symptom, follow_up or disambiguation session that was created for the
\* identity after that handler returned.
C37_TimerSparesLaterSessions ==
    result.fired /\ result.since => result.found.type \notin DialogTypes

\* C38: when two invocations carrying yes overlap while one unresponded
\* fresh reminder exists, the medication of that reminder is recorded as
\* taken at most once.
C38_TakenRecordedOnce ==
    arg.overlapped => Cardinality(arg.recorded) <= 1 /\ arg.takenCount <= 1

\* C39: with time advancing and the sweep running, every pending
\* disambiguation session is eventually absent, through a valid choice or
\* through the sweep; an invalid reply leaves the session and its
\* timestamp as they were, so it does not extend the session's life.
C39_PendingEventuallyAbsent ==
    /\ \A k \in Keys : arg.us[k].present ~> ~arg.us[k].present
    /\ [][arg'.reprompts > arg.reprompts => arg'.us = arg.us]_vars

\* a session that was answered with invalid replies only has been removed
\* by the sweep
C39_SweptAfterInvalidReplies ==
    /\ arg.expired
    /\ arg.reprompts = MaxReprompts
    /\ \A k \in Keys : ~arg.us[k].present

\* C40: the steps of the detector, the resolver and the prompt generator
\* leave the three session maps, the check-in state and the reminder store
\* as they were; the store changes only in the router's step.
C40_DetectResolvePromptFrame ==
    [][applied' \in 1..3 =>
          UNCHANGED <<accountCreationSessions, userSessions, medicationSessions,
                      activeCheckInSessions, reminders>>]_vars

\* all five conversations were detected, the question was generated, and
\* the router has stored it over the general session
C40_RouterWroteAfterPrompt ==
    /\ applied = 4
    /\ Len(result.info.activeConversations) = 5
    /\ result.prompt # <<>>
    /\ userSessions[Std].type = "disambiguation"
    /\ medicationSessions[Std] # NoMedSession

====
